---- MODULE Spec2Model ----
(***************************************************************************)
(* ngram_analyzer: n-gram analysis of a weighted dictionary.               *)
(*                                                                         *)
(* A character is a one-character string, a std::string is a sequence of   *)
(* characters ("cat" is <<"c","a","t">>), an NGramMap is a function from    *)
(* its keys to their weights, and a std::vector is a function on           *)
(* 0..size-1.  Weights are doubles in the program; the model uses small    *)
(* naturals, on which double arithmetic is exact.                          *)
(***************************************************************************)
EXTENDS Integers, Sequences, FiniteSets, TLC

VARIABLES
    frequencies,          \* word -> weight, as returned by subtlex.get("SUBTLWF")
    top_k,                \* option -k
    output_json,          \* option --json
    pending,              \* words the loop over frequencies has not visited yet
    ngramMaps,            \* std::vector<NGramMap>
    totalWeights,         \* std::vector<double>
    wordCount,
    lastWord,             \* the word the last loop iteration processed (<<>> before)
    consonantNgrams,
    vowelNgrams,
    totalVowelNgrams,
    totalConsonantNgrams,
    pc,                   \* position in main
    mapIdx,               \* position of the report's range-for over ngramMaps
    ngramSize,            \* the report's length counter
    printedWords,         \* value printed as "Total words processed", or None
    section,              \* the last per-length section printed, or None
    sectionCount,         \* number of per-length sections printed
    printedTotal,         \* value printed as "Total weight of n-grams processed", or None
    jsonOut,              \* the JSON document printed, or None
    nInput,               \* normalizer harness: the argument
    nResult,              \* normalizer harness: the returned string
    nDone,                \* normalizer harness: the call has returned
    fileLines,            \* importer: the lines of the file read so far, header first
    columnNames,          \* importer: the constructor's columnNames
    columnIndices,        \* SubtlexImporter::columnIndices
    seenWords,            \* importer: the constructor's seenWords
    table,                \* SubtlexImporter::table
    ipc,                  \* importer: position of the constructor
    error,                \* importer: the runtime_error thrown, if any
    gotColumn,            \* importer: the argument of the last call of get
    gotMap                \* importer: the map the last call of get returned

vars == <<frequencies, top_k, output_json, pending, ngramMaps, totalWeights, wordCount,
          lastWord, consonantNgrams, vowelNgrams, totalVowelNgrams, totalConsonantNgrams,
          pc, mapIdx, ngramSize, printedWords, section, sectionCount, printedTotal,
          jsonOut, nInput, nResult, nDone, fileLines, columnNames, columnIndices,
          seenWords, table, ipc, error, gotColumn, gotMap>>

mainVars == <<frequencies, top_k, output_json, pending, ngramMaps, totalWeights, wordCount,
              lastWord, consonantNgrams, vowelNgrams, totalVowelNgrams,
              totalConsonantNgrams, pc, mapIdx, ngramSize, printedWords, section,
              sectionCount, printedTotal, jsonOut>>

normVars == <<nInput, nResult, nDone>>

impVars == <<fileLines, columnNames, columnIndices, seenWords, table, ipc, error,
             gotColumn, gotMap>>

-----------------------------------------------------------------------------
(* Bounds of the model *)

\* Largest number of words in the dictionary
MaxWords == 2
\* Largest value of option -k that is tried
MaxTopK == 2
\* Longest argument given to the normalizer harness
MaxWordLen == 3
MaxRows == 2

\* Word weights that are tried
Weights == {0, 1, 5, 10}

\* Words a dictionary is drawn from
Lexicon == { <<"c","a","t">>, <<"c","a","n">>, <<"b","o","y">>, <<"q","u">> }

\* The lowercase letters
Letters == {"a","b","c","d","e","f","g","h","i","j","k","l","m",
            "n","o","p","q","r","s","t","u","v","w","x","y","z"}

None == "none"

-----------------------------------------------------------------------------
(* Strings *)

npos == -1

VOWELSPlain == <<"e","o","a","i","u">>
VOWELS == <<"e","o","a","i","u","Y","W">>

CONSONANTS == <<"t","n","h","s","r","l","d","y","m","w","g","c","f","b","p","k",
                "v","j","x","z","q","Q">>

\* s.find(c): index (from 0) of the first occurrence of character c in s, or npos
find(s, c) ==
    IF \E k \in 1..Len(s) : s[k] = c
    THEN (CHOOSE k \in 1..Len(s) : s[k] = c /\ \A m \in 1..(k-1) : s[m] # c) - 1
    ELSE npos

\* s.find_first_not_of(set): index (from 0) of the first character of s that
\* does not occur in set, or npos
find_first_not_of(s, set) ==
    IF \E k \in 1..Len(s) : find(set, s[k]) = npos
    THEN (CHOOSE k \in 1..Len(s) :
              /\ find(set, s[k]) = npos
              /\ \A m \in 1..(k-1) : find(set, s[m]) # npos) - 1
    ELSE npos

\* s.substr(pos, n), for pos + n <= s.size()
substr(s, pos, n) == SubSeq(s, pos + 1, pos + n)

-----------------------------------------------------------------------------
(* replaceSpecialSequences *)

\* The condition under which a 'y' following c0 becomes 'Y'
YTriggerNoConsonants(c0) == c0 = "a" \/ c0 = "e" \/ c0 = "o" \/ c0 = "u"
YTrigger(c0) ==
    c0 = "a" \/ c0 = "e" \/ c0 = "o" \/ c0 = "u" \/ find(CONSONANTS, c0) # npos

\* The condition under which a 'w' following c0 becomes 'W'
WTriggerNoO(c0) == c0 = "a" \/ c0 = "e"
WTrigger(c0) == c0 = "a" \/ c0 = "e" \/ c0 = "o"

\* The y/w branch of one iteration: <<result, i>> after it
YWBranchNoSkip(c0, c1, result, i) ==
    IF c1 = "y"
    THEN IF YTrigger(c0) THEN <<Append(result, "Y"), i>> ELSE <<result, i>>
    ELSE IF c1 = "w"
         THEN IF WTrigger(c0) THEN <<Append(result, "W"), i>> ELSE <<result, i>>
         ELSE <<result, i>>

YWBranchReplace(c0, c1, result, i) ==
    IF c1 = "y"
    THEN IF YTrigger(c0)
         THEN <<[result EXCEPT ![Len(result)] = "Y"], i + 1>>
         ELSE <<result, i>>
    ELSE IF c1 = "w"
         THEN IF WTrigger(c0)
              THEN <<[result EXCEPT ![Len(result)] = "W"], i + 1>>
              ELSE <<result, i>>
         ELSE <<result, i>>

YWBranch(c0, c1, result, i) ==
    IF c1 = "y"
    THEN IF YTrigger(c0) THEN <<Append(result, "Y"), i + 1>> ELSE <<result, i>>
    ELSE IF c1 = "w"
         THEN IF WTrigger(c0) THEN <<Append(result, "W"), i + 1>> ELSE <<result, i>>
         ELSE <<result, i>>

\* The "qu" check of one iteration, executed after the y/w branch
QUCheckNoLookahead(c0, c1, result, i) ==
    IF c0 = "q"
    THEN <<[result EXCEPT ![Len(result)] = "Q"], i + 1>>
    ELSE <<result, i>>

QUCheckAppend(c0, c1, result, i) ==
    IF c0 = "q"
    THEN IF c1 = "u"
         THEN <<Append(result, "Q"), i + 1>>
         ELSE <<result, i>>
    ELSE <<result, i>>

QUCheck(c0, c1, result, i) ==
    IF c0 = "q"
    THEN IF c1 = "u"
         THEN <<[result EXCEPT ![Len(result)] = "Q"], i + 1>>
         ELSE <<result, i>>
    ELSE <<result, i>>

\* One iteration of the while loop, for i < input.size(): <<result, i>> after it
ScanStep(input, i, result) ==
    LET c0 == input[i + 1]
        i1 == i + 1
        r1 == Append(result, c0)
    IN  IF i1 < Len(input)
        THEN LET c1 == input[i1 + 1]
                 yw == YWBranch(c0, c1, r1, i1)
             IN  QUCheck(c0, c1, yw[1], yw[2])
        ELSE <<r1, i1>>

\* The while loop, from index i with the output built so far
RECURSIVE ScanLoop(_, _, _)
ScanLoop(input, i, result) ==
    IF i < Len(input)
    THEN LET st == ScanStep(input, i, result)
         IN  ScanLoop(input, st[2], st[1])
    ELSE result

replaceSpecialSequences(input) == ScanLoop(input, 0, <<>>)

-----------------------------------------------------------------------------
(* replaceSpecialSequences of util/NGramAnalysis/main.cpp: one if/else-if chain *)

utilCONSONANTS == << "t", "n", "s", "h", "r", "d", "l", "c", "m", "p", "g", "f",
                    "y", "b", "w", "v", "k", "x", "j", "q", "z", "Q" >>

\* One iteration of the while loop, for i < input.size(): <<result, i>> after it
utilScanStep(input, i, result) ==
    LET c0 == input[i + 1]
        i1 == i + 1
        r1 == Append(result, c0)
    IN  IF i1 < Len(input)
        THEN LET c1 == input[i1 + 1]
             IN  IF c1 = "y" /\ (c0 = "a" \/ c0 = "e" \/ c0 = "o" \/ c0 = "u")
                 THEN <<Append(r1, "Y"), i1 + 1>>
                 ELSE IF c1 = "w" /\ (c0 = "a" \/ c0 = "e" \/ c0 = "o")
                 THEN <<Append(r1, "W"), i1 + 1>>
                 ELSE IF c1 = "y" /\ find(utilCONSONANTS, c0) # npos
                 THEN <<Append(r1, "Y"), i1 + 1>>
                 ELSE IF c0 = "q" /\ c1 = "u"
                 THEN <<[r1 EXCEPT ![Len(r1)] = "Q"], i1 + 1>>
                 ELSE <<r1, i1>>
        ELSE <<r1, i1>>

RECURSIVE utilScanLoop(_, _, _)
utilScanLoop(input, i, result) ==
    IF i < Len(input)
    THEN LET st == utilScanStep(input, i, result)
         IN  utilScanLoop(input, st[2], st[1])
    ELSE result

utilReplaceSpecialSequences(input) == utilScanLoop(input, 0, <<>>)

-----------------------------------------------------------------------------
(* The n-gram accumulation loop of main *)

\* map[key], with the value-initialised 0.0 operator[] gives an absent key
At(map, key) == IF key \in DOMAIN map THEN map[key] ELSE 0

\* map[key] += weight
AddTo(map, key, weight) ==
    [k \in DOMAIN map \cup {key} |-> IF k = key THEN At(map, k) + weight ELSE map[k]]

\* map[key] = weight
Assign(map, key, weight) ==
    [k \in DOMAIN map \cup {key} |-> IF k = key THEN weight ELSE map[k]]

\* vector.resize(n) / resize(n, 0) of a vector no longer than n; fill is the
\* value of the new elements
resize(vec, n, fill) ==
    [k \in 0..(n - 1) |-> IF k \in DOMAIN vec THEN vec[k] ELSE fill]

size(vec) == Cardinality(DOMAIN vec)

EmptyMap == <<>>
EmptyVector == <<>>

\* "Count the n-gram": st is <<ngramMaps, totalWeights>>
CountNgramAssign(st, ngram, weight) ==
    LET ngramSz == Len(ngram)
    IN  << [st[1] EXCEPT ![ngramSz] = Assign(st[1][ngramSz], ngram, weight)],
           [st[2] EXCEPT ![ngramSz] = st[2][ngramSz] + weight] >>
CountNgramTotalAssign(st, ngram, weight) ==
    LET ngramSz == Len(ngram)
    IN  << [st[1] EXCEPT ![ngramSz] = AddTo(st[1][ngramSz], ngram, weight)],
           [st[2] EXCEPT ![ngramSz] = weight] >>
CountNgramOffByOne(st, ngram, weight) ==
    LET ngramSz == Len(ngram) - 1
    IN  << [st[1] EXCEPT ![ngramSz] = AddTo(st[1][ngramSz], ngram, weight)],
           [st[2] EXCEPT ![ngramSz] = st[2][ngramSz] + weight] >>
CountNgram(st, ngram, weight) ==
    LET ngramSz == Len(ngram)
    IN  << [st[1] EXCEPT ![ngramSz] = AddTo(st[1][ngramSz], ngram, weight)],
           [st[2] EXCEPT ![ngramSz] = st[2][ngramSz] + weight] >>

\* The loop over the offsets with i < wordLength - n
RECURSIVE OffsetLoopStrict(_, _, _, _, _)
OffsetLoopStrict(word, weight, n, i, st) ==
    IF i < Len(word) - n
    THEN OffsetLoopStrict(word, weight, n, i + 1,
                          CountNgram(st, replaceSpecialSequences(substr(word, i, n)), weight))
    ELSE st

\* for (i = ...; i <= wordLength - n; ++i)
RECURSIVE OffsetLoop(_, _, _, _, _)
OffsetLoop(word, weight, n, i, st) ==
    IF i <= Len(word) - n
    THEN OffsetLoop(word, weight, n, i + 1,
                    CountNgram(st, replaceSpecialSequences(substr(word, i, n)), weight))
    ELSE st

\* for (n = ...; n <= wordLength; ++n)
RECURSIVE LengthLoopStrict(_, _, _, _)
LengthLoopStrict(word, weight, n, st) ==
    IF n < Len(word)
    THEN LengthLoopStrict(word, weight, n + 1, OffsetLoop(word, weight, n, 0, st))
    ELSE st
RECURSIVE LengthLoop(_, _, _, _)
LengthLoop(word, weight, n, st) ==
    IF n <= Len(word)
    THEN LengthLoop(word, weight, n + 1, OffsetLoop(word, weight, n, 0, st))
    ELSE st

\* One iteration of the loop over frequencies in which the vectors are
\* allocated anew, and not resized, for a longer word
CountWordReallocate(maps, totals, word, weight) ==
    LET wordLength == Len(word)
        grown == IF size(maps) < wordLength + 1
                 THEN << resize(EmptyVector, wordLength + 1, EmptyMap),
                         resize(EmptyVector, wordLength + 1, 0) >>
                 ELSE << maps, totals >>
    IN  LengthLoop(word, weight, 1, grown)

\* One iteration of the loop over frequencies: <<ngramMaps, totalWeights>> after it
CountWord(maps, totals, word, weight) ==
    LET wordLength == Len(word)
        grown == IF size(maps) < wordLength + 1
                 THEN << resize(maps, wordLength + 1, EmptyMap),
                         resize(totals, wordLength + 1, 0) >>
                 ELSE << maps, totals >>
    IN  LengthLoop(word, weight, 1, grown)

-----------------------------------------------------------------------------
(* The vowel/consonant extraction loop of main *)

\* ngram.find_first_not_of(VOWELS) == npos
AllVowels(ngram) == find_first_not_of(ngram, VOWELS) = npos

\* ngram.find_first_not_of(CONSONANTS) == npos
AllConsonantsInverted(ngram) == find_first_not_of(ngram, CONSONANTS) # npos
AllConsonants(ngram) == find_first_not_of(ngram, CONSONANTS) = npos

\* The body of the inner loop; st is
\* <<vowelNgrams, consonantNgrams, totalVowelNgrams, totalConsonantNgrams>>
ClassifyEntryNoElse(st, ngram, weight) ==
    LET v == IF AllVowels(ngram)
             THEN << Assign(st[1], ngram, weight), st[2], st[3] + weight, st[4] >>
             ELSE st
    IN  IF AllVowels(ngram)
        THEN << v[1], Assign(v[2], ngram, weight), v[3], v[4] + weight >>
        ELSE v
ClassifyEntryNoConsonantTotal(st, ngram, weight) ==
    IF AllVowels(ngram)
    THEN << Assign(st[1], ngram, weight), st[2], st[3] + weight, st[4] >>
    ELSE IF AllConsonants(ngram)
         THEN << st[1], Assign(st[2], ngram, weight), st[3], st[4] >>
         ELSE st
ClassifyEntry(st, ngram, weight) ==
    IF AllVowels(ngram)
    THEN << Assign(st[1], ngram, weight), st[2], st[3] + weight, st[4] >>
    ELSE IF AllConsonants(ngram)
         THEN << st[1], Assign(st[2], ngram, weight), st[3], st[4] + weight >>
         ELSE st

\* The inner loop over the entries of one map that are still to visit.  The
\* iteration order of an unordered_map is unspecified; the entries' keys are
\* distinct, so every order gives the same tables and (exact) sums.
RECURSIVE ClassifyMap(_, _, _)
ClassifyMap(st, map, keys) ==
    IF keys = {}
    THEN st
    ELSE LET ngram == CHOOSE k \in keys : TRUE
         IN  ClassifyMap(ClassifyEntry(st, ngram, map[ngram]), map, keys \ {ngram})

\* The outer loop, from index idx of ngramMaps
RECURSIVE ClassifyMaps(_, _, _)
ClassifyMaps(st, maps, idx) ==
    IF idx < size(maps)
    THEN ClassifyMaps(ClassifyMap(st, maps[idx], DOMAIN maps[idx]), maps, idx + 1)
    ELSE st

-----------------------------------------------------------------------------
(* The human-readable report of main *)

NaN == "nan"
Inf == "inf"

\* x / y on doubles: a fraction <<numerator, denominator>>, or what IEEE
\* division by zero gives for x >= 0
Divide(x, y) == IF y = 0 THEN (IF x = 0 THEN NaN ELSE Inf) ELSE <<x, y>>

\* p * 100
Times100NoScale(p) == p
Times100(p) == IF p = NaN \/ p = Inf THEN p ELSE <<p[1] * 100, p[2]>>

\* The comparator given to std::sort, on <<ngram, weight>> pairs
CompAscending(a, b) == a[2] < b[2]
Comp(a, b) == b[2] < a[2]

\* All the (ngram, weight) pairs of a map: the contents of ngram_vector
Entries(map) == { <<k, map[k]>> : k \in DOMAIN map }

\* Number of entries the display loop prints
DisplayCountOffByOne(k, n) == (IF n < k THEN n ELSE k) - 1
DisplayCount(k, n) == IF n < k THEN n ELSE k

\* The first count elements of ngram_vector after std::sort.  std::sort leaves
\* a permutation in which no element is ordered (by Comp) before an earlier
\* one; elements that Comp does not order end up in an unspecified order.  So
\* the first element is any one that no other element must precede, and so on
\* for the rest: this is the set of all outcomes.
RECURSIVE SortedTop(_, _)
SortedTop(entries, count) ==
    IF count <= 0 \/ entries = {}
    THEN { <<>> }
    ELSE UNION { { <<e>> \o rest : rest \in SortedTop(entries \ {e}, count - 1) } :
                 e \in { x \in entries : \A y \in entries : ~Comp(y, x) } }

\* One printed line of the display loop: <<ngram, weight, p * 100>>
Line(e, total) == << e[1], e[2], Times100(Divide(e[2], total)) >>

\* std::accumulate(totalWeights.begin(), totalWeights.end(), 0.0) from index idx
RECURSIVE accumulateFromOne(_, _)
accumulateFromOne(vec, idx) ==
    IF idx < size(vec) THEN vec[idx] + accumulateFromOne(vec, idx + 1) ELSE 1

RECURSIVE accumulate(_, _)
accumulate(vec, idx) ==
    IF idx < size(vec) THEN vec[idx] + accumulate(vec, idx + 1) ELSE 0

-----------------------------------------------------------------------------
(* main *)

Sources ==
    UNION { [S -> Weights] : S \in { T \in SUBSET Lexicon : Cardinality(T) <= MaxWords } }

NormIdle == /\ nInput = <<>>
            /\ nResult = <<>>
            /\ nDone = FALSE

\* No runtime_error has been thrown
NoError == [kind |-> "none", detail |-> <<>>]

ImpIdle == /\ fileLines = <<>>
           /\ columnNames = <<>>
           /\ columnIndices = EmptyMap
           /\ seenWords = {}
           /\ table = <<>>
           /\ ipc = "idle"
           /\ error = NoError
           /\ gotColumn = <<>>
           /\ gotMap = EmptyMap

Init ==
    /\ frequencies \in Sources
    /\ top_k \in 1..MaxTopK
    /\ output_json \in BOOLEAN
    /\ pending = DOMAIN frequencies
    /\ ngramMaps = EmptyVector
    /\ totalWeights = EmptyVector
    /\ wordCount = 0
    /\ lastWord = <<>>
    /\ consonantNgrams = EmptyMap
    /\ vowelNgrams = EmptyMap
    /\ totalVowelNgrams = 0
    /\ totalConsonantNgrams = 0
    /\ pc = "count"
    /\ mapIdx = 0
    /\ ngramSize = 0
    /\ printedWords = None
    /\ section = None
    /\ sectionCount = 0
    /\ printedTotal = None
    /\ jsonOut = None
    /\ NormIdle
    /\ ImpIdle

\* One iteration of the loop over frequencies
ProcessWord ==
    /\ pc = "count"
    /\ \E word \in pending :
          LET st == CountWord(ngramMaps, totalWeights, word, frequencies[word])
          IN  /\ ngramMaps' = st[1]
              /\ totalWeights' = st[2]
              /\ pending' = pending \ {word}
              /\ lastWord' = word
    /\ wordCount' = wordCount + 1
    /\ UNCHANGED <<frequencies, top_k, output_json, consonantNgrams, vowelNgrams,
                   totalVowelNgrams, totalConsonantNgrams, pc, mapIdx, ngramSize,
                   printedWords, section, sectionCount, printedTotal, jsonOut, normVars, impVars>>

\* The extraction of the vowel-only and consonant-only n-grams
Classify ==
    /\ pc = "count"
    /\ pending = {}
    /\ LET st == ClassifyMaps(<<EmptyMap, EmptyMap, 0, 0>>, ngramMaps, 0)
       IN  /\ vowelNgrams' = st[1]
           /\ consonantNgrams' = st[2]
           /\ totalVowelNgrams' = st[3]
           /\ totalConsonantNgrams' = st[4]
    /\ pc' = "output"
    /\ UNCHANGED <<frequencies, top_k, output_json, pending, ngramMaps, totalWeights,
                   wordCount, lastWord, mapIdx, ngramSize, printedWords, section,
                   sectionCount, printedTotal, jsonOut, normVars, impVars>>

\* if (output_json): the JSON document
PrintJson ==
    /\ pc = "output"
    /\ output_json
    /\ jsonOut' = [ngrams |-> ngramMaps, vowels |-> vowelNgrams,
                   consonants |-> consonantNgrams]
    /\ pc' = "done"
    /\ UNCHANGED <<frequencies, top_k, output_json, pending, ngramMaps, totalWeights,
                   wordCount, lastWord, consonantNgrams, vowelNgrams, totalVowelNgrams,
                   totalConsonantNgrams, mapIdx, ngramSize, printedWords, section,
                   sectionCount, printedTotal, normVars, impVars>>

\* else: "Total words processed", and the report loop starts
PrintWordCount ==
    /\ pc = "output"
    /\ ~output_json
    /\ printedWords' = wordCount
    /\ mapIdx' = 0
    /\ ngramSize' = 0
    /\ pc' = "report"
    /\ UNCHANGED <<frequencies, top_k, output_json, pending, ngramMaps, totalWeights,
                   wordCount, lastWord, consonantNgrams, vowelNgrams, totalVowelNgrams,
                   totalConsonantNgrams, section, sectionCount, printedTotal, jsonOut,
                   normVars, impVars>>

\* An iteration of the report loop on an empty map, without ++ngramSize
SkipEmptyMapNoAdvance ==
    /\ pc = "report"
    /\ mapIdx < size(ngramMaps)
    /\ DOMAIN ngramMaps[mapIdx] = {}
    /\ mapIdx' = mapIdx + 1
    /\ UNCHANGED <<frequencies, top_k, output_json, pending, ngramMaps, totalWeights,
                   wordCount, lastWord, consonantNgrams, vowelNgrams, totalVowelNgrams,
                   totalConsonantNgrams, pc, ngramSize, printedWords, section,
                   sectionCount, printedTotal, jsonOut, normVars, impVars>>

\* An iteration of the report loop on an empty map
SkipEmptyMap ==
    /\ pc = "report"
    /\ mapIdx < size(ngramMaps)
    /\ DOMAIN ngramMaps[mapIdx] = {}
    /\ ngramSize' = ngramSize + 1
    /\ mapIdx' = mapIdx + 1
    /\ UNCHANGED <<frequencies, top_k, output_json, pending, ngramMaps, totalWeights,
                   wordCount, lastWord, consonantNgrams, vowelNgrams, totalVowelNgrams,
                   totalConsonantNgrams, pc, printedWords, section, sectionCount,
                   printedTotal, jsonOut, normVars, impVars>>

\* An iteration of the report loop on a non-empty map: one section
PrintSection ==
    /\ pc = "report"
    /\ mapIdx < size(ngramMaps)
    /\ DOMAIN ngramMaps[mapIdx] # {}
    /\ LET ngram_vector == Entries(ngramMaps[mapIdx])
           count == DisplayCount(top_k, Cardinality(ngram_vector))
       IN  \E top \in SortedTop(ngram_vector, count) :
              section' = [ n       |-> ngramSize,
                           counted |-> Cardinality(ngram_vector),
                           top     |-> top_k,
                           lines   |-> [j \in 1..Len(top) |->
                                          Line(top[j], totalWeights[ngramSize])] ]
    /\ sectionCount' = sectionCount + 1
    /\ ngramSize' = ngramSize + 1
    /\ mapIdx' = mapIdx + 1
    /\ UNCHANGED <<frequencies, top_k, output_json, pending, ngramMaps, totalWeights,
                   wordCount, lastWord, consonantNgrams, vowelNgrams, totalVowelNgrams,
                   totalConsonantNgrams, pc, printedWords, printedTotal, jsonOut,
                   normVars, impVars>>

\* After the report loop: the total weight of the n-grams processed
PrintTotal ==
    /\ pc = "report"
    /\ ~(mapIdx < size(ngramMaps))
    /\ printedTotal' = accumulate(totalWeights, 0)
    /\ pc' = "done"
    /\ UNCHANGED <<frequencies, top_k, output_json, pending, ngramMaps, totalWeights,
                   wordCount, lastWord, consonantNgrams, vowelNgrams, totalVowelNgrams,
                   totalConsonantNgrams, mapIdx, ngramSize, printedWords, section,
                   sectionCount, jsonOut, normVars, impVars>>

Next ==
    \/ ProcessWord
    \/ Classify
    \/ PrintJson
    \/ PrintWordCount
    \/ SkipEmptyMap
    \/ PrintSection
    \/ PrintTotal

Spec == Init /\ [][Next]_vars

-----------------------------------------------------------------------------
(* A call of replaceSpecialSequences on its own *)

\* The non-empty lowercase words of at most MaxWordLen letters
Words == UNION { [1..n -> Letters] : n \in 1..MaxWordLen }

InitNorm ==
    /\ nInput \in Words
    /\ nResult = <<>>
    /\ nDone = FALSE
    /\ frequencies = EmptyMap
    /\ top_k = 1
    /\ output_json = FALSE
    /\ pending = {}
    /\ ngramMaps = EmptyVector
    /\ totalWeights = EmptyVector
    /\ wordCount = 0
    /\ lastWord = <<>>
    /\ consonantNgrams = EmptyMap
    /\ vowelNgrams = EmptyMap
    /\ totalVowelNgrams = 0
    /\ totalConsonantNgrams = 0
    /\ pc = "normalizer"
    /\ mapIdx = 0
    /\ ngramSize = 0
    /\ printedWords = None
    /\ section = None
    /\ sectionCount = 0
    /\ printedTotal = None
    /\ jsonOut = None
    /\ ImpIdle

Normalize ==
    /\ pc = "normalizer"
    /\ ~nDone
    /\ nResult' = replaceSpecialSequences(nInput)
    /\ nDone' = TRUE
    /\ UNCHANGED <<nInput, mainVars, impVars>>

NextNorm == Normalize

SpecNorm == InitNorm /\ [][NextNorm]_vars

-----------------------------------------------------------------------------
(* main on the sources of one word *)

\* A letter for each case the scan tells apart: the vowels before which a
\* 'y' and a 'w' are vowels (a, e, o), the one before which a 'y' is (u), the
\* one before which neither is (i), a consonant, and q, w and y
WordLetters == {"a", "e", "i", "o", "u", "t", "q", "w", "y"}

\* The sources that hold one word of these letters, with the weight 1
WordSources ==
    { [w \in {word} |-> 1] :
        word \in UNION { [1..n -> WordLetters] : n \in 1..MaxWordLen } }

InitWord ==
    /\ frequencies \in WordSources
    /\ top_k = 1
    /\ output_json = TRUE
    /\ pending = DOMAIN frequencies
    /\ ngramMaps = EmptyVector
    /\ totalWeights = EmptyVector
    /\ wordCount = 0
    /\ lastWord = <<>>
    /\ consonantNgrams = EmptyMap
    /\ vowelNgrams = EmptyMap
    /\ totalVowelNgrams = 0
    /\ totalConsonantNgrams = 0
    /\ pc = "count"
    /\ mapIdx = 0
    /\ ngramSize = 0
    /\ printedWords = None
    /\ section = None
    /\ sectionCount = 0
    /\ printedTotal = None
    /\ jsonOut = None
    /\ NormIdle
    /\ ImpIdle

\* The accumulation loop and the classification
NextWord ==
    \/ ProcessWord
    \/ Classify

SpecWord == InitWord /\ [][NextWord]_vars

-----------------------------------------------------------------------------
(* SubtlexImporter: the pure functions *)

\* A line of the file is a sequence of symbols.  A symbol is one character;
\* a column name of the header is carried as one symbol, since the code only
\* compares whole names.  Comma is the field separator.
Comma == ","

Range(s) == { s[i] : i \in DOMAIN s }

\* F applied to the value of v: v is evaluated once, before F
With(v, F(_)) == CHOOSE r \in { F(x) : x \in {v} } : TRUE

\* std::vector<std::string> fields joined by commas: the text of a line
RECURSIVE Join(_)
Join(fields) ==
    IF fields = <<>> THEN <<>>
    ELSE IF Len(fields) = 1 THEN fields[1]
    ELSE fields[1] \o <<Comma>> \o Join(Tail(fields))

\* The position of the first Comma of line at or after pos, Len(line) + 1 if
\* there is none: where std::getline(ss, field, ',') stops
RECURSIVE NextComma(_, _)
NextComma(line, pos) ==
    IF pos > Len(line) \/ line[pos] = Comma THEN pos ELSE NextComma(line, pos + 1)

\* The getline loop of splitCSVLine from position pos.  getline fails, and
\* the loop ends, once the stream is at its end: after a final Comma no
\* empty field is extracted.
RECURSIVE SplitLoop(_, _, _)
SplitLoop(line, pos, result) ==
    IF pos > Len(line)
    THEN result
    ELSE With(NextComma(line, pos),
              LAMBDA j : SplitLoop(line, j + 1, Append(result, SubSeq(line, pos, j - 1))))

splitCSVLine(line) == SplitLoop(line, 1, <<>>)

\* columnTypes
columnTypes ==
    "Word" :> "String" @@
    "FREQcount" :> "Int" @@
    "CDcount" :> "Int" @@
    "FREQlow" :> "Int" @@
    "Cdlow" :> "Int" @@
    "SUBTLWF" :> "Double" @@
    "Lg10WF" :> "Double" @@
    "SUBTLCD" :> "Double" @@
    "Lg10CD" :> "Double" @@
    "Dom_PoS_SUBTLEX" :> "String" @@
    "Freq_dom_PoS_SUBTLEX" :> "Int" @@
    "Percentage_dom_PoS" :> "Double" @@
    "All_PoS_SUBTLEX" :> "String" @@
    "All_freqs_SUBTLEX" :> "String" @@
    "Zipf-value" :> "Double"

\* A column name as the text of a header field: one symbol
Name(n) == <<n>>

\* A thrown std::runtime_error: the fixed part of its message and the rest
Throw(kind, detail) == [kind |-> kind, detail |-> detail]

\* validateColumnNames: the set of its outcomes, NoError for a normal return.
\* The loop over columnTypes visits the keys in an unspecified order, so any
\* missing key can be the one reported.
validateColumnNames(names) ==
    LET nameSet == Range(names)
        missing == { key \in DOMAIN columnTypes : Name(key) \notin nameSet }
        unexpected == { i \in DOMAIN names :
                          \A key \in DOMAIN columnTypes : names[i] # Name(key) }
    IN  IF Len(names) # Cardinality(DOMAIN columnTypes)
        THEN { Throw("CSV header has incorrect number of columns.", <<>>) }
        ELSE IF missing # {}
        THEN { Throw("Missing required column", Name(key)) : key \in missing }
        ELSE IF unexpected # {}
        THEN { Throw("Unexpected column in CSV",
                     names[CHOOSE i \in unexpected : \A j \in unexpected : i <= j]) }
        ELSE { NoError }

\* The letters and digits of the "C" locale
lowercase == << "a", "b", "c", "d", "e", "f", "g", "h", "i", "j", "k", "l", "m",
               "n", "o", "p", "q", "r", "s", "t", "u", "v", "w", "x", "y", "z" >>
uppercase == << "A", "B", "C", "D", "E", "F", "G", "H", "I", "J", "K", "L", "M",
               "N", "O", "P", "Q", "R", "S", "T", "U", "V", "W", "X", "Y", "Z" >>
digits == << "0", "1", "2", "3", "4", "5", "6", "7", "8", "9" >>

IndexOf(c, s) == CHOOSE i \in DOMAIN s : s[i] = c

\* ::tolower and std::isalpha on one character
tolowerIdentity(c) == c
tolower(c) == IF c \in Range(uppercase) THEN lowercase[IndexOf(c, uppercase)] ELSE c

isalphaOrDigit(c) == c \in Range(lowercase) \cup Range(uppercase) \cup Range(digits)
isalpha(c) == c \in Range(lowercase) \cup Range(uppercase)

isdigit(c) == c \in Range(digits)

\* std::isspace in the "C" locale: space, \t, \n, \v, \f and \r
isspace(c) == c \in {" ", "\t", "\n", "", "\f", "\r"}

\* std::isxdigit, and the value of a hexadecimal digit
isxdigit(c) ==
    c \in Range(digits) \cup Range(SubSeq(lowercase, 1, 6)) \cup Range(SubSeq(uppercase, 1, 6))
xdigitValue(c) ==
    IF c \in Range(digits) THEN IndexOf(c, digits) - 1
    ELSE IF c \in Range(lowercase) THEN IndexOf(c, lowercase) + 9
    ELSE IndexOf(c, uppercase) + 9

\* std::transform(word.begin(), word.end(), word.begin(), tolower)
transform(word) == [i \in DOMAIN word |-> tolower(word[i])]

\* std::all_of(word.begin(), word.end(), isalpha)
all_of(word) == \A i \in DOMAIN word : isalpha(word[i])

\* The first position of s at or after pos that holds no white space
SkipSpace(s, pos) ==
    CHOOSE e \in pos..(Len(s) + 1) :
        /\ \A i \in pos..(e - 1) : isspace(s[i])
        /\ e = Len(s) + 1 \/ ~isspace(s[e])

\* The position after the characters of s from pos that satisfy the test
\* (isdigit when hex is FALSE, isxdigit when it is TRUE)
SpanEnd(s, pos, hex) ==
    CHOOSE e \in pos..(Len(s) + 1) :
        /\ \A i \in pos..(e - 1) : IF hex THEN isxdigit(s[i]) ELSE isdigit(s[i])
        /\ \/ e = Len(s) + 1
           \/ ~(IF hex THEN isxdigit(s[e]) ELSE isdigit(s[e]))

\* The position after the zeros of s from pos
ZerosEnd(s, pos) ==
    CHOOSE e \in pos..(Len(s) + 1) :
        /\ \A i \in pos..(e - 1) : s[i] = "0"
        /\ e = Len(s) + 1 \/ s[e] # "0"

\* The run of decimal digits of s from pos, accumulated as strtol does, on the
\* negative side with the cutoff of INT_MIN; beyond the cutoff the digits are
\* consumed and no longer accumulated:
\* <<value, position after the run, overflow>>
RECURSIVE DigitRun(_, _, _, _)
DigitRun(s, pos, n, overflow) ==
    IF pos <= Len(s) /\ isdigit(s[pos])
    THEN LET d == IndexOf(s[pos], digits) - 1
             over == overflow \/ n < -214748364 \/ (n = -214748364 /\ d > 8)
         IN  IF over THEN <<n, SpanEnd(s, pos, FALSE), TRUE>>
             ELSE With(n * 10 - d, LAMBDA t : DigitRun(s, pos + 1, t, FALSE))
    ELSE <<n, pos, overflow>>

\* An exception of the conversion, caught by parseValue
Fail == [ok |-> FALSE]

\* std::stoi(s): white space, an optional sign, then decimal digits; what
\* follows the digits is ignored.  std::invalid_argument without a digit,
\* std::out_of_range outside of int.
stoi(s) ==
    LET p0 == SkipSpace(s, 1)
        signed == p0 <= Len(s) /\ (s[p0] = "-" \/ s[p0] = "+")
        neg == p0 <= Len(s) /\ s[p0] = "-"
        p1 == IF signed THEN p0 + 1 ELSE p0
        run == DigitRun(s, ZerosEnd(s, p1), 0, FALSE)
    IN  IF run[2] = p1 THEN Fail
        ELSE IF run[3] \/ (~neg /\ run[1] = -2147483647 - 1) THEN Fail
        ELSE [ok |-> TRUE, v |-> IF neg THEN run[1] ELSE 0 - run[1]]

\* The text s holds the lowercase text word at pos, in any case of letters
MatchesAt(s, pos, word) ==
    /\ pos + Len(word) - 1 <= Len(s)
    /\ \A i \in DOMAIN word : tolower(s[pos + i - 1]) = word[i]

\* The values of the digits of s from position from up to position to, to excluded
DigitsOf(s, from, to) == [i \in 1..(to - from) |-> xdigitValue(s[from + i - 1])]

\* The exponent that no mantissa of the text s makes up for: with a greater
\* exponent of 10 or of 2 a number that is not zero is beyond DBL_MAX, with
\* a smaller one it is below the least subnormal double, since the first
\* digit of the mantissa that is not zero is less than Len(s) decimal
\* digits, and less than 4 * Len(s) bits, away from the point
ExponentLimit(s) == 4 * Len(s) + 1100

\* The decimal digits of s from position from up to to as a number, after
\* the digits of n; -1 when the number is greater than ExponentLimit(s)
RECURSIVE ExponentValue(_, _, _, _)
ExponentValue(s, from, to, n) ==
    IF from < to
    THEN IF n * 10 + xdigitValue(s[from]) > ExponentLimit(s) THEN -1
         ELSE ExponentValue(s, from + 1, to, n * 10 + xdigitValue(s[from]))
    ELSE n

\* The exponent part of s at pos, for the exponent letter given in lowercase:
\* the letter, an optional sign and one decimal digit or more.  Without a
\* digit there is no exponent part and the exponent is 0.  The exponent is
\* beyond when it is greater than ExponentLimit(s) or less than its negative.
Exponent(s, pos, letter) ==
    IF pos <= Len(s) /\ tolower(s[pos]) = letter
    THEN LET signed == pos + 1 <= Len(s) /\ (s[pos + 1] = "-" \/ s[pos + 1] = "+")
             neg == pos + 1 <= Len(s) /\ s[pos + 1] = "-"
             first == IF signed THEN pos + 2 ELSE pos + 1
             last == SpanEnd(s, first, FALSE)
             n == ExponentValue(s, ZerosEnd(s, first), last, 0)
         IN  [beyond |-> n = -1, exp |-> IF n = -1 THEN 0 ELSE IF neg THEN 0 - n ELSE n]
    ELSE [beyond |-> FALSE, exp |-> 0]

\* A number as the digits of its mantissa without the zeros at both ends,
\* and its exponent, for the mantissa ds with the exponent exp: a zero at
\* the end of ds is one more in the exponent.  Zero is <<>> with exponent 0.
Normal(ds, exp) ==
    IF \A i \in DOMAIN ds : ds[i] = 0
    THEN <<<<>>, 0>>
    ELSE LET first == CHOOSE i \in DOMAIN ds : ds[i] # 0 /\ \A j \in 1..(i - 1) : ds[j] = 0
             last == CHOOSE i \in DOMAIN ds :
                         ds[i] # 0 /\ \A j \in (i + 1)..Len(ds) : ds[j] = 0
         IN  <<SubSeq(ds, first, last), exp + (Len(ds) - last)>>

\* The four bits of each hexadecimal digit of hs
Bits(hs) ==
    [i \in 1..(4 * Len(hs)) |->
        LET h == hs[((i - 1) \div 4) + 1]
            k == (i - 1) % 4
        IN  IF k = 0 THEN h \div 8
            ELSE IF k = 1 THEN (h \div 4) % 2
            ELSE IF k = 2 THEN (h \div 2) % 2
            ELSE h % 2]

\* 0.a < 0.b for the digit sequences a and b
LexLess(a, b) ==
    LET at(x, i) == IF i <= Len(x) THEN x[i] ELSE 0
        diff == { i \in DOMAIN a \cup DOMAIN b : at(a, i) # at(b, i) }
    IN  /\ diff # {}
        /\ LET i == CHOOSE d \in diff : \A e \in diff : d <= e
           IN  at(a, i) < at(b, i)

\* The digits of 2^1024 - 2^970, a number of 309 digits: the least number
\* that is rounded to a double beyond DBL_MAX
OverflowLimit ==
    << 1, 7, 9, 7, 6, 9, 3, 1, 3, 4, 8, 6, 2, 3, 1, 5, 8, 0, 7, 9, 3, 7, 2, 8, 9, 7, 1, 4, 0, 5,
       3, 0, 3, 4, 1, 5, 0, 7, 9, 9, 3, 4, 1, 3, 2, 7, 1, 0, 0, 3, 7, 8, 2, 6, 9, 3, 6, 1, 7, 3,
       7, 7, 8, 9, 8, 0, 4, 4, 4, 9, 6, 8, 2, 9, 2, 7, 6, 4, 7, 5, 0, 9, 4, 6, 6, 4, 9, 0, 1, 7,
       9, 7, 7, 5, 8, 7, 2, 0, 7, 0, 9, 6, 3, 3, 0, 2, 8, 6, 4, 1, 6, 6, 9, 2, 8, 8, 7, 9, 1, 0,
       9, 4, 6, 5, 5, 5, 5, 4, 7, 8, 5, 1, 9, 4, 0, 4, 0, 2, 6, 3, 0, 6, 5, 7, 4, 8, 8, 6, 7, 1,
       5, 0, 5, 8, 2, 0, 6, 8, 1, 9, 0, 8, 9, 0, 2, 0, 0, 0, 7, 0, 8, 3, 8, 3, 6, 7, 6, 2, 7, 3,
       8, 5, 4, 8, 4, 5, 8, 1, 7, 7, 1, 1, 5, 3, 1, 7, 6, 4, 4, 7, 5, 7, 3, 0, 2, 7, 0, 0, 6, 9,
       8, 5, 5, 5, 7, 1, 3, 6, 6, 9, 5, 9, 6, 2, 2, 8, 4, 2, 9, 1, 4, 8, 1, 9, 8, 6, 0, 8, 3, 4,
       9, 3, 6, 4, 7, 5, 2, 9, 2, 7, 1, 9, 0, 7, 4, 1, 6, 8, 4, 4, 4, 3, 6, 5, 5, 1, 0, 7, 0, 4,
       3, 4, 2, 7, 1, 1, 5, 5, 9, 6, 9, 9, 5, 0, 8, 0, 9, 3, 0, 4, 2, 8, 8, 0, 1, 7, 7, 9, 0, 4,
       1, 7, 4, 4, 9, 7, 7, 9, 2 >>
\* The digits of 2^-1022 - 2^-1076, whose first digit is the 308th decimal:
\* the least number that is rounded to a double that is not subnormal
TinyLimit ==
    << 2, 2, 2, 5, 0, 7, 3, 8, 5, 8, 5, 0, 7, 2, 0, 1, 2, 5, 9, 5, 7, 3, 8, 2, 1, 2, 5, 7, 0, 2,
       0, 7, 6, 8, 0, 2, 0, 0, 7, 7, 0, 1, 7, 7, 6, 3, 4, 0, 6, 9, 8, 8, 7, 3, 9, 2, 8, 8, 3, 7,
       6, 7, 6, 3, 3, 0, 6, 0, 1, 3, 3, 2, 8, 4, 1, 7, 4, 9, 7, 5, 7, 0, 6, 8, 5, 4, 0, 6, 3, 4,
       1, 4, 6, 0, 3, 2, 3, 0, 5, 4, 2, 3, 9, 1, 0, 8, 2, 4, 9, 3, 2, 2, 0, 3, 7, 7, 1, 6, 0, 5,
       6, 0, 1, 1, 2, 6, 0, 3, 0, 0, 1, 2, 4, 0, 2, 7, 3, 7, 7, 1, 9, 1, 8, 3, 4, 7, 9, 6, 3, 9,
       2, 7, 6, 9, 7, 2, 1, 4, 3, 7, 0, 7, 8, 9, 9, 0, 8, 3, 6, 5, 3, 2, 7, 9, 8, 9, 0, 4, 4, 3,
       1, 8, 4, 9, 8, 6, 4, 7, 3, 2, 5, 0, 4, 1, 1, 0, 4, 6, 7, 2, 7, 3, 0, 8, 4, 6, 9, 6, 9, 7,
       7, 8, 1, 2, 0, 2, 8, 7, 1, 6, 2, 3, 6, 5, 5, 6, 9, 6, 7, 9, 3, 5, 8, 9, 5, 6, 5, 7, 3, 5,
       1, 8, 6, 8, 2, 0, 2, 7, 8, 8, 7, 2, 2, 4, 9, 4, 8, 1, 1, 5, 3, 0, 1, 5, 1, 3, 1, 7, 6, 1,
       6, 3, 6, 6, 3, 3, 3, 2, 9, 6, 9, 4, 5, 9, 5, 3, 4, 3, 1, 3, 6, 9, 2, 2, 2, 1, 9, 0, 3, 0,
       8, 0, 5, 3, 7, 8, 7, 6, 9, 4, 9, 4, 0, 4, 1, 1, 7, 4, 3, 7, 0, 7, 8, 0, 9, 8, 2, 2, 5, 8,
       0, 7, 4, 0, 9, 8, 8, 8, 8, 0, 5, 5, 1, 6, 1, 7, 9, 0, 7, 1, 1, 9, 0, 0, 2, 1, 4, 8, 7, 5,
       9, 4, 0, 1, 9, 1, 5, 8, 9, 2, 1, 5, 1, 4, 8, 2, 0, 8, 1, 9, 2, 4, 8, 9, 0, 2, 6, 3, 3, 1,
       2, 7, 0, 2, 2, 5, 7, 3, 2, 1, 1, 8, 4, 7, 5, 0, 7, 7, 1, 8, 6, 1, 4, 5, 2, 2, 2, 4, 0, 9,
       6, 2, 1, 2, 6, 3, 1, 6, 9, 8, 6, 2, 3, 6, 3, 8, 7, 7, 6, 8, 6, 0, 1, 4, 1, 8, 3, 8, 0, 6,
       1, 1, 6, 5, 7, 0, 2, 2, 6, 3, 7, 7, 6, 6, 4, 0, 9, 0, 7, 6, 4, 8, 1, 9, 4, 4, 3, 5, 5, 3,
       6, 0, 5, 4, 3, 3, 6, 3, 7, 3, 7, 2, 7, 9, 7, 8, 0, 1, 4, 5, 9, 3, 1, 0, 0, 6, 7, 8, 6, 6,
       0, 4, 9, 2, 1, 1, 7, 5, 1, 6, 7, 8, 4, 9, 0, 8, 5, 2, 1, 5, 1, 1, 1, 5, 9, 7, 6, 7, 3, 7,
       3, 3, 2, 3, 3, 3, 9, 1, 9, 1, 9, 8, 3, 2, 2, 1, 3, 2, 6, 8, 5, 3, 5, 1, 9, 1, 2, 8, 3, 3,
       8, 7, 8, 4, 8, 9, 1, 9, 1, 3, 3, 8, 0, 7, 1, 5, 5, 3, 2, 8, 4, 0, 9, 7, 1, 0, 0, 3, 8, 7,
       8, 9, 9, 3, 6, 2, 7, 2, 4, 0, 6, 8, 6, 7, 2, 6, 6, 6, 3, 3, 9, 7, 6, 0, 9, 1, 4, 9, 8, 3,
       4, 3, 4, 9, 8, 3, 1, 3, 4, 4, 8, 7, 9, 6, 7, 6, 6, 5, 3, 4, 6, 9, 0, 9, 1, 5, 5, 9, 1, 3,
       0, 1, 8, 9, 8, 9, 9, 1, 1, 4, 5, 2, 1, 1, 2, 4, 7, 8, 2, 3, 8, 0, 5, 4, 7, 3, 4, 1, 0, 0,
       9, 7, 7, 5, 5, 9, 0, 6, 7, 6, 0, 9, 6, 2, 9, 1, 5, 8, 5, 9, 4, 9, 6, 9, 7, 7, 4, 3, 0, 1,
       8, 9, 3, 0, 8, 1, 1, 3, 8, 5, 8, 6, 9, 2, 7, 2, 8, 1, 1, 5, 3, 2, 9, 3, 7, 3, 3, 9, 5, 0,
       7, 0, 4, 3, 3, 6, 1, 6, 6, 3, 8, 1, 8, 3, 5, 9, 3, 7, 5 >>

\* Twice the number of the decimal digits ds, in one digit more than ds has
Doubled(ds) ==
    LET at(i) == IF i \in DOMAIN ds THEN ds[i] ELSE 0
    IN  [i \in 1..(Len(ds) + 1) |->
            (2 * at(i - 1) + (IF at(i) >= 5 THEN 1 ELSE 0)) % 10]

\* Twice the number of the decimal digits ds
Twice(ds) ==
    LET all == Doubled(ds)
    IN  IF all[1] = 0 THEN Tail(all) ELSE all

\* The number of the decimal digits ds divided n times by 5, each time as
\* the tenth of its double; <<>> when a division leaves a remainder
RECURSIVE DivideByPow5(_, _)
DivideByPow5(ds, n) ==
    IF n <= 0 \/ ds = <<>> THEN ds
    ELSE IF n = 1
    THEN IF ds[Len(ds)] \notin {0, 5} THEN <<>>
         ELSE With(Twice(ds), LAMBDA t : SubSeq(t, 1, Len(t) - 1))
    ELSE With(DivideByPow5(ds, n \div 2),
              LAMBDA t : DivideByPow5(t, n - (n \div 2)))

\* 5^k divides the number of the decimal digits ds
DivisibleByPow5(ds, k) == k <= 0 \/ DivideByPow5(ds, k) # <<>>

\* strtod sets ERANGE for the number with the mantissa ds and the exponent
\* exp, of 10 (radix 10, decimal digits) or of 2 (radix 2, bits): the number
\* is rounded to a double beyond DBL_MAX, or it is rounded to a subnormal
\* double or to zero that it is not equal to
OutOfRange(radix, ds, exp) ==
    IF radix = 10
    THEN LET m == Len(ds) + exp
         IN  \/ m > 309
             \/ m = 309 /\ ~LexLess(ds, OverflowLimit)
             \/ /\ \/ m < -307
                   \/ m = -307 /\ LexLess(ds, TinyLimit)
                /\ ~(exp >= -1074 /\ DivisibleByPow5(ds, 0 - exp))
    ELSE LET p == Len(ds) + exp
             ones == Len(ds) >= 54 /\ \A i \in 1..54 : ds[i] = 1
         IN  \/ p > 1024
             \/ p = 1024 /\ ones
             \/ /\ \/ p < -1022
                   \/ p = -1022 /\ ~ones
                /\ exp < -1074

\* The half of the number of the decimal digits ds, without the remainder
Half(ds) ==
    LET all == [i \in DOMAIN ds |->
                  (10 * ((IF i > 1 THEN ds[i - 1] ELSE 0) % 2) + ds[i]) \div 2]
    IN  IF all # <<>> /\ all[1] = 0 THEN Tail(all) ELSE all

\* One halving of st = <<decimal digits, bits>>: the remainder is one more
\* bit in front of the bits; none for the digits of zero
HalveStep(st) ==
    IF st[1] = <<>> THEN st
    ELSE <<Half(st[1]), <<st[1][Len(st[1])] % 2>> \o st[2]>>

\* 2^k halvings of st, or fewer down to zero
RECURSIVE HalveSteps(_, _)
HalveSteps(st, k) ==
    IF st[1] = <<>> THEN st
    ELSE IF k <= 0 THEN HalveStep(st)
    ELSE With(HalveSteps(st, k - 1), LAMBDA t : HalveSteps(t, k - 1))

\* The least k with 2^k >= n
StepsFor(n) == CHOOSE k \in 0..30 : 2 ^ k >= n /\ (k = 0 \/ 2 ^ (k - 1) < n)

\* The bits of the integer of the decimal digits ds, most significant
\* first: a digit is less than 4 bits
IntegerBits(ds) ==
    With(ds, LAMBDA d : HalveSteps(<<d, <<>>>>, StepsFor(4 * Len(d)))[2])

\* The bits of a fraction are enough for the rounding of a double: the
\* fraction st[1] is used up, or the bits from the first 1 on (st[3] of them)
\* are 55, or the bits st[2] reach below the least subnormal double
FractionDone(st) ==
    \/ \A i \in DOMAIN st[1] : st[1][i] = 0
    \/ st[3] >= 55
    \/ Len(st[2]) >= 1076

\* One doubling of st = <<decimal digits of a fraction, bits, number of bits
\* from the first 1 on>>: the carry is one more bit; none when the bits are enough
DoubleStep(st) ==
    IF FractionDone(st) THEN st
    ELSE LET d == Doubled(st[1])
         IN  <<Tail(d), Append(st[2], d[1]),
               IF st[3] > 0 \/ d[1] = 1 THEN st[3] + 1 ELSE 0>>

\* 2^k doublings of st, or fewer when the bits are enough
RECURSIVE DoubleSteps(_, _)
DoubleSteps(st, k) ==
    IF FractionDone(st) THEN st
    ELSE IF k <= 0 THEN DoubleStep(st)
    ELSE With(DoubleSteps(st, k - 1), LAMBDA t : DoubleSteps(t, k - 1))

\* The bits of the fraction of st: 2^11 doublings are more than the 1076
\* bits at which the bits are enough
FractionBits(st) == DoubleSteps(st, 11)

\* The number of the decimal digits ds with the exponent exp of 10 as bits
\* with an exponent of 2: all the bits of its integer part, the bits of its
\* fraction that the rounding needs, and one more bit 1 for what is left of
\* the fraction
Binary(ds, exp) ==
    IF exp >= 0
    THEN <<IntegerBits(ds \o [i \in 1..exp |-> 0]), 0>>
    ELSE LET k == 0 - exp
             n == Len(ds)
             int == IF n > k THEN SubSeq(ds, 1, n - k) ELSE <<>>
             frac == IF n > k THEN SubSeq(ds, n - k + 1, n)
                     ELSE [i \in 1..(k - n) |-> 0] \o ds
         IN  With(IntegerBits(int),
                  LAMBDA ib : With(FractionBits(<<frac, <<>>, Len(ib)>>),
                      LAMBDA st :
                          IF \E i \in DOMAIN st[1] : st[1][i] # 0
                          THEN <<ib \o st[2] \o <<1>>, 0 - Len(st[2]) - 1>>
                          ELSE <<ib \o st[2], 0 - Len(st[2])>>))

\* The bits bs as a number, plus one
Increment(bs) ==
    IF \A i \in DOMAIN bs : bs[i] = 1
    THEN <<1>> \o [i \in DOMAIN bs |-> 0]
    ELSE LET j == CHOOSE i \in DOMAIN bs : bs[i] = 0 /\ \A h \in (i + 1)..Len(bs) : bs[h] = 1
         IN  [i \in DOMAIN bs |-> IF i < j THEN bs[i] ELSE IF i = j THEN 1 ELSE 0]

\* The double nearest to the number of the bits with the exponent exp of 2,
\* the even one of two that are equally near: 53 bits are kept, or the bits
\* down to 2^-1074 of a subnormal double.  <<mantissa, exponent>> without
\* zeros at the ends of the mantissa.
Rounded(bits, exp) ==
    With(Normal(bits, exp),
         LAMBDA n :
             LET b == n[1]
                 p == Len(b) + n[2]
                 q == IF p - 53 > -1074 THEN p - 53 ELSE -1074
                 k == Len(b) - (q - n[2])
             IN  IF b = <<>> \/ q <= n[2] THEN n
                 ELSE IF k < 0 THEN <<<<>>, 0>>
                 ELSE LET kept == SubSeq(b, 1, k)
                          up == /\ b[k + 1] = 1
                                /\ \/ \E i \in (k + 2)..Len(b) : b[i] = 1
                                   \/ k > 0 /\ b[k] = 1
                      IN  Normal(IF up THEN Increment(kept) ELSE kept, q))

\* A finite double: its sign, and its value mantissa * 2^exp, the mantissa
\* as bits (most significant first) without zeros at the ends.  Zero has
\* the mantissa <<>> and the exponent 0.
Finite(neg, n) ==
    [class |-> "finite", neg |-> neg, mantissa |-> n[1], exp |-> n[2]]

\* The doubles infinity and NaN
NonFinite(class, neg) ==
    [class |-> class, neg |-> neg, mantissa |-> <<>>, exp |-> 0]

\* The result of strtod for the sign and the number n = <<digits, exponent>>
\* in the radix 10 or 2: ERANGE, or the double the number is rounded to
Converted(neg, radix, n) ==
    IF n[1] # <<>> /\ OutOfRange(radix, n[1], n[2])
    THEN Fail
    ELSE With(IF radix = 10 THEN Binary(n[1], n[2]) ELSE n,
              LAMBDA b : With(Rounded(b[1], b[2]),
                              LAMBDA r : [ok |-> TRUE, v |-> Finite(neg, r)]))

\* The result of strtod for the sign and the mantissa ds of digits or of
\* bits, whose exponent is beyond: zero for the mantissa zero, or ERANGE
Beyond(neg, ds) ==
    IF \A i \in DOMAIN ds : ds[i] = 0
    THEN [ok |-> TRUE, v |-> Finite(neg, <<<<>>, 0>>)]
    ELSE Fail

\* strtod on decimal notation from pos: digits with an optional point, one
\* digit at least, and an optional exponent part
DecimalFloat(s, pos, neg) ==
    LET intEnd == SpanEnd(s, pos, FALSE)
        point == intEnd <= Len(s) /\ s[intEnd] = "."
        fracEnd == IF point THEN SpanEnd(s, intEnd + 1, FALSE) ELSE intEnd
        int == DigitsOf(s, pos, intEnd)
        frac == IF point THEN DigitsOf(s, intEnd + 1, fracEnd) ELSE <<>>
        e == Exponent(s, fracEnd, "e")
    IN  IF int = <<>> /\ frac = <<>>
        THEN Fail
        ELSE IF e.beyond
        THEN Beyond(neg, int \o frac)
        ELSE Converted(neg, 10, Normal(int \o frac, e.exp - Len(frac)))

\* strtod on hexadecimal notation from pos, the position after "0x":
\* hexadecimal digits with an optional point, and an optional exponent of 2
HexFloat(s, pos, neg) ==
    LET intEnd == SpanEnd(s, pos, TRUE)
        point == intEnd <= Len(s) /\ s[intEnd] = "."
        fracEnd == IF point THEN SpanEnd(s, intEnd + 1, TRUE) ELSE intEnd
        int == DigitsOf(s, pos, intEnd)
        frac == IF point THEN DigitsOf(s, intEnd + 1, fracEnd) ELSE <<>>
        e == Exponent(s, fracEnd, "p")
    IN  IF e.beyond
        THEN Beyond(neg, int \o frac)
        ELSE Converted(neg, 2, Normal(Bits(int \o frac), e.exp - 4 * Len(frac)))

\* The text s has at pos the prefix of hexadecimal notation: "0x" before a
\* hexadecimal digit, or before a point and a hexadecimal digit
HexPrefix(s, pos) ==
    /\ MatchesAt(s, pos, <<"0", "x">>)
    /\ \/ pos + 2 <= Len(s) /\ isxdigit(s[pos + 2])
       \/ pos + 3 <= Len(s) /\ s[pos + 2] = "." /\ isxdigit(s[pos + 3])

\* std::stod(s): strtod converts, after white space and an optional sign,
\* "inf" or "infinity" or "nan" in any case of letters, hexadecimal notation
\* or decimal notation; what follows is ignored.  std::invalid_argument
\* when nothing is converted, std::out_of_range when strtod sets ERANGE.
stod(s) ==
    LET p0 == SkipSpace(s, 1)
        signed == p0 <= Len(s) /\ (s[p0] = "-" \/ s[p0] = "+")
        neg == p0 <= Len(s) /\ s[p0] = "-"
        p1 == IF signed THEN p0 + 1 ELSE p0
    IN  IF MatchesAt(s, p1, <<"i", "n", "f">>)
        THEN [ok |-> TRUE, v |-> NonFinite("inf", neg)]
        ELSE IF MatchesAt(s, p1, <<"n", "a", "n">>)
        THEN [ok |-> TRUE, v |-> NonFinite("nan", neg)]
        ELSE IF HexPrefix(s, p1)
        THEN HexFloat(s, p1 + 2, neg)
        ELSE DecimalFloat(s, p1, neg)

\* parseValue: the Value for the text of a field, or the runtime_error
parseValue(value, columnName) ==
    IF columnName \notin { Name(key) : key \in DOMAIN columnTypes }
    THEN Throw("Unknown column type", columnName)
    ELSE LET type == columnTypes[columnName[1]]
         IN  IF type = "Int"
             THEN LET r == stoi(value)
                  IN  IF r.ok THEN [type |-> "int", v |-> r.v]
                      ELSE Throw("Failed to parse value", <<value, columnName>>)
             ELSE IF type = "Double"
             THEN LET r == stod(value)
                  IN  IF r.ok THEN [type |-> "double", v |-> r.v]
                      ELSE Throw("Failed to parse value", <<value, columnName>>)
             ELSE [type |-> "string", v |-> value]

IsError(x) == "kind" \in DOMAIN x

-----------------------------------------------------------------------------
(* SubtlexImporter: construction and get *)

\* The loop that fills columnIndices: columnIndices[columnNames[i]] = i
RECURSIVE IndexLoop(_, _, _)
IndexLoop(names, i, indices) ==
    IF i < Len(names)
    THEN With(Assign(indices, names[i + 1], i),
              LAMBDA next : IndexLoop(names, i + 1, next))
    ELSE indices

\* The parse loop over the fields of a row, from index i: [error, row], the
\* error of the first field that fails, or NoError and the typed row
RECURSIVE ParseLoop(_, _, _, _)
ParseLoop(rawRow, names, i, typedRow) ==
    IF i < Len(rawRow)
    THEN With(parseValue(rawRow[i + 1], names[i + 1]),
              LAMBDA value :
                  IF IsError(value) THEN [error |-> value, row |-> <<>>]
                  ELSE ParseLoop(rawRow, names, i + 1, Append(typedRow, value)))
    ELSE [error |-> NoError, row |-> typedRow]

\* The word of a row after the forced lowercase
LowerWord(rawRow, wordIdx) == transform(rawRow[wordIdx + 1])

\* The body of the loop with the values parsed before the duplicate check
CheckRowParseFirst(rawRow, names, indices, seen) ==
    LET wordIdx == indices[Name("Word")]
    IN  IF Len(rawRow) # Len(names)
        THEN [error |-> Throw("Row has incorrect number of columns.", <<>>),
              seen |-> seen, row |-> <<>>]
        ELSE LET word == LowerWord(rawRow, wordIdx)
                 lowRow == [rawRow EXCEPT ![wordIdx + 1] = word]
             IN  IF word = <<>> \/ ~all_of(word)
                 THEN [error |-> Throw("Invalid word in data", word),
                       seen |-> seen, row |-> <<>>]
                 ELSE With(ParseLoop(lowRow, names, 0, <<>>),
                           LAMBDA parsed :
                             IF parsed.error # NoError
                             THEN [error |-> parsed.error, seen |-> seen, row |-> <<>>]
                             ELSE IF word \in seen
                             THEN [error |-> Throw("Duplicate word in data", word),
                                   seen |-> seen, row |-> <<>>]
                             ELSE [error |-> NoError, seen |-> seen \cup {word},
                                   row |-> parsed.row])

\* The body of the loop over the data lines after the split: the checks in
\* the order of the code.  Gives [error, seen, row]: the error thrown (NoError
\* if none), the words seen after the row, and the typed row.
CheckRow(rawRow, names, indices, seen) ==
    LET wordIdx == indices[Name("Word")]
    IN  IF Len(rawRow) # Len(names)
        THEN [error |-> Throw("Row has incorrect number of columns.", <<>>),
              seen |-> seen, row |-> <<>>]
        ELSE LET word == LowerWord(rawRow, wordIdx)
                 lowRow == [rawRow EXCEPT ![wordIdx + 1] = word]
             IN  IF word = <<>> \/ ~all_of(word)
                 THEN [error |-> Throw("Invalid word in data", word),
                       seen |-> seen, row |-> <<>>]
                 ELSE IF word \in seen
                 THEN [error |-> Throw("Duplicate word in data", word),
                       seen |-> seen, row |-> <<>>]
                 ELSE With(ParseLoop(lowRow, names, 0, <<>>),
                           LAMBDA parsed : [error |-> parsed.error,
                                            seen |-> seen \cup {word},
                                            row |-> parsed.row])

\* The body of the loop over the data lines
ReadLine(line, names, indices, seen) ==
    With(splitCSVLine(line), LAMBDA rawRow : CheckRow(rawRow, names, indices, seen))

\* The loop of get over the rows of the table, from row i; emplace keeps the
\* entry of a key that is already present
RECURSIVE GetLoop(_, _, _, _, _)
GetLoop(rows, i, wordIdx, colIdx, result) ==
    IF i < Len(rows)
    THEN LET key == rows[i + 1][wordIdx + 1].v
         IN  With(IF key \in DOMAIN result
                  THEN result
                  ELSE Assign(result, key, rows[i + 1][colIdx + 1]),
                  LAMBDA next : GetLoop(rows, i + 1, wordIdx, colIdx, next))
    ELSE result

\* SubtlexImporter::get
get(columnName, indices, rows) ==
    IF columnName \in DOMAIN indices
    THEN GetLoop(rows, 0, indices[Name("Word")], indices[columnName], EmptyMap)
    ELSE EmptyMap

\* The header of the test suite's valid file
validHeader ==
    << Name("Word"), Name("FREQcount"), Name("CDcount"), Name("FREQlow"),
       Name("Cdlow"), Name("SUBTLWF"), Name("Lg10WF"), Name("SUBTLCD"),
       Name("Lg10CD"), Name("Dom_PoS_SUBTLEX"), Name("Freq_dom_PoS_SUBTLEX"),
       Name("Percentage_dom_PoS"), Name("All_PoS_SUBTLEX"),
       Name("All_freqs_SUBTLEX"), Name("Zipf-value") >>

Swap(s, i, j) == [s EXCEPT ![i] = s[j], ![j] = s[i]]

\* The valid header with Word second and a String column last
ReorderedHeader == Swap(Swap(validHeader, 1, 2), 14, 15)

\* The header lines read: valid, reordered, valid with a comma at the end,
\* too short, with one more column, with a column twice (16 and 15 names),
\* with a foreign name in place of a required one, and the empty line
HeaderLines ==
    { Join(validHeader),
      Join(ReorderedHeader),
      Join(validHeader) \o <<Comma>>,
      Join(SubSeq(validHeader, 1, 3)),
      Join(validHeader \o <<Name("ExtraColumn")>>),
      Join(<<Name("Word"), Name("FREQcount")>> \o Tail(validHeader)),
      Join([validHeader EXCEPT ![3] = Name("FREQcount")]),
      Join([validHeader EXCEPT ![3] = Name("ExtraColumn")]),
      <<>> }

\* The texts of the fields of the data rows
WordTexts == { <<"c", "a", "t">>, <<"C", "a", "t">>, <<"d", "o", "g">>,
               <<"c", "4", "t">>, <<>> }
IntTexts == { <<"1", "2">>, <<"-", "5">>, <<"0">>, <<"1", "2", "a", "b", "c">>,
              <<"a", "b", "c">>, <<"1", ".", "5">>, <<>>,
              <<"3", "0", "0", "0", "0", "0", "0", "0", "0", "0">>,
              <<"\t", "1", "2">> }
DoubleTexts == { <<"1", ".", "5">>, <<"-", "1", ".", "5">>, <<"0", ".", "0">>,
                 <<"a", "b", "c">>, <<"1", ".", "5", "a", "b", "c">>,
                 <<"1", "e", "5">>, <<"i", "n", "f">>, <<"1", "e", "9", "9", "9">>,
                 <<"0", ".", "1">>,
                 <<"3", "0", "0", "0", "0", "0", "0", "0", "0", "0">> }
StringTexts == { <<"n">>, <<>> }

DefaultInt == <<"1", "2">>
DefaultDouble == <<"1", ".", "5">>
DefaultString == <<"n">>

\* The fields of a row for the columns names: the word in the Word column,
\* and one text for all the columns of each other type
RowFields(names, w, i, d, s) ==
    [k \in DOMAIN names |->
        IF names[k] = Name("Word") THEN w
        ELSE IF columnTypes[names[k][1]] = "Int" THEN i
        ELSE IF columnTypes[names[k][1]] = "Double" THEN d
        ELSE s]

\* The data lines read under the columns names: a row of default texts for
\* each word, the rows of one word in which one of the three texts is not the
\* default one, a row with a comma at its end, a row of three fields, a row
\* with one more field, and the empty line
RowLines(names) ==
    { Join(RowFields(names, w, DefaultInt, DefaultDouble, DefaultString)) :
        w \in WordTexts }
    \cup { Join(RowFields(names, <<"c", "a", "t">>, i, DefaultDouble, DefaultString)) :
             i \in IntTexts }
    \cup { Join(RowFields(names, <<"c", "a", "t">>, DefaultInt, d, DefaultString)) :
             d \in DoubleTexts }
    \cup { Join(RowFields(names, <<"c", "a", "t">>, DefaultInt, DefaultDouble, s)) :
             s \in StringTexts }
    \cup { Join(RowFields(names, <<"d", "o", "g">>, DefaultInt, DefaultDouble,
                          DefaultString)) \o <<Comma>>,
           Join(SubSeq(RowFields(validHeader, <<"c", "a", "t">>, DefaultInt,
                                 DefaultDouble, DefaultString), 1, 3)),
           Join(RowFields(names, <<"C", "a", "t">>, DefaultInt, DefaultDouble,
                          DefaultString) \o <<DefaultString>>),
           <<>> }

\* The column names asked of get
GetColumns == { Name("FREQcount"), Name("SUBTLWF"), Name("Dom_PoS_SUBTLEX"),
                Name("Word"), Name("InvalidColumn") }

InitImport ==
    /\ fileLines = <<>>
    /\ columnNames = <<>>
    /\ columnIndices = EmptyMap
    /\ seenWords = {}
    /\ table = <<>>
    /\ ipc = "open"
    /\ error = NoError
    /\ gotColumn = <<>>
    /\ gotMap = EmptyMap
    /\ NormIdle
    /\ frequencies = EmptyMap
    /\ top_k = 1
    /\ output_json = FALSE
    /\ pending = {}
    /\ ngramMaps = EmptyVector
    /\ totalWeights = EmptyVector
    /\ wordCount = 0
    /\ lastWord = <<>>
    /\ consonantNgrams = EmptyMap
    /\ vowelNgrams = EmptyMap
    /\ totalVowelNgrams = 0
    /\ totalConsonantNgrams = 0
    /\ pc = "importer"
    /\ mapIdx = 0
    /\ ngramSize = 0
    /\ printedWords = None
    /\ section = None
    /\ sectionCount = 0
    /\ printedTotal = None
    /\ jsonOut = None

\* std::ifstream input{path}: the file is open
Open ==
    /\ ipc = "open"
    /\ ipc' = "header"
    /\ UNCHANGED <<fileLines, columnNames, columnIndices, seenWords, table, error,
                   gotColumn, gotMap, mainVars, normVars>>

\* !input.is_open()
FailOpen ==
    /\ ipc = "open"
    /\ error' = Throw("Cannot open file", <<>>)
    /\ ipc' = "failed"
    /\ UNCHANGED <<fileLines, columnNames, columnIndices, seenWords, table,
                   gotColumn, gotMap, mainVars, normVars>>

\* The file has no line: getline of the header fails
FailEmpty ==
    /\ ipc = "header"
    /\ error' = Throw("File is empty", <<>>)
    /\ ipc' = "failed"
    /\ UNCHANGED <<fileLines, columnNames, columnIndices, seenWords, table,
                   gotColumn, gotMap, mainVars, normVars>>

\* The header line: split, validated, and the column indices filled
ReadHeader ==
    /\ ipc = "header"
    /\ \E headerLine \in HeaderLines :
          LET names == splitCSVLine(headerLine)
          IN  /\ fileLines' = <<headerLine>>
              /\ columnNames' = names
              /\ \E outcome \in validateColumnNames(names) :
                    IF outcome = NoError
                    THEN /\ columnIndices' = IndexLoop(names, 0, EmptyMap)
                         /\ ipc' = "rows"
                         /\ error' = error
                    ELSE /\ columnIndices' = columnIndices
                         /\ ipc' = "failed"
                         /\ error' = outcome
    /\ UNCHANGED <<seenWords, table, gotColumn, gotMap, mainVars, normVars>>

\* One iteration of the loop over the data lines
ReadRow ==
    /\ ipc = "rows"
    /\ Len(fileLines) <= MaxRows
    /\ \E line \in RowLines(columnNames) :
          LET r == ReadLine(line, columnNames, columnIndices, seenWords)
          IN  /\ fileLines' = Append(fileLines, line)
              /\ seenWords' = r.seen
              /\ IF r.error = NoError
                 THEN /\ table' = Append(table, r.row)
                      /\ ipc' = ipc
                      /\ error' = error
                 ELSE /\ table' = table
                      /\ ipc' = "failed"
                      /\ error' = r.error
    /\ UNCHANGED <<columnNames, columnIndices, gotColumn, gotMap, mainVars, normVars>>

\* The end of the file: getline fails and the constructor returns
Finish ==
    /\ ipc = "rows"
    /\ ipc' = "ready"
    /\ UNCHANGED <<fileLines, columnNames, columnIndices, seenWords, table, error,
                   gotColumn, gotMap, mainVars, normVars>>

\* A call of get on the constructed importer
Get ==
    /\ ipc = "ready"
    /\ \E columnName \in GetColumns :
          /\ gotColumn' = columnName
          /\ gotMap' = get(columnName, columnIndices, table)
    /\ UNCHANGED <<fileLines, columnNames, columnIndices, seenWords, table, ipc,
                   error, mainVars, normVars>>

NextImport ==
    \/ Open
    \/ FailOpen
    \/ FailEmpty
    \/ ReadHeader
    \/ ReadRow
    \/ Finish
    \/ Get

SpecImport == InitImport /\ [][NextImport]_vars

-----------------------------------------------------------------------------
(* Properties *)

\* The alphabets as the specification lists them
VowelAlphabet == {"a","e","o","i","u","Y","W"}
ConsonantAlphabet == {"t","n","h","s","r","l","d","y","m","w","g","c","f","b","p","k",
                      "v","j","x","z","q","Q"}

Classified == pc \in {"output", "report", "done"}

\* maps[t], or the empty map when the vector has no index t
MapAt(maps, t) == IF t \in DOMAIN maps THEN maps[t] ELSE EmptyMap

\* The (length, offset) pairs of the contiguous subsequences of s
Positions(s) == { p \in (1..Len(s)) \X (0..Len(s)) : p[2] <= Len(s) - p[1] }

\* Number of contiguous subsequences of the normalized word that have length
\* t and are equal to k
OccInNormalized(word, t, k) ==
    LET norm == replaceSpecialSequences(word)
    IN  Cardinality({ p \in Positions(norm) : p[1] = t /\ substr(norm, p[2], p[1]) = k })

\* Number of contiguous substrings of the raw word whose own normalized form
\* has length t and is equal to k
OccOfNormalizedSubstrings(word, t, k) ==
    Cardinality({ p \in Positions(word) :
                    LET g == replaceSpecialSequences(substr(word, p[2], p[1]))
                    IN  Len(g) = t /\ g = k })

\* Every key either count could give an n-gram of the word
CandidateKeys(word) ==
    LET norm == replaceSpecialSequences(word)
    IN  { substr(norm, p[2], p[1]) : p \in Positions(norm) }
        \cup { replaceSpecialSequences(substr(word, p[2], p[1])) : p \in Positions(word) }

\* A step that processes a word adds weight * Occ(word, t, k) to entry k of
\* table t, creates exactly the entries with Occ > 0 that were absent, and
\* changes nothing else
AddsExactly(Occ(_, _, _)) ==
    pending' # pending =>
        LET word == lastWord'
            weight == frequencies[word]
        IN  \A t \in DOMAIN ngramMaps' \cup (0..Len(word)) :
                LET old == MapAt(ngramMaps, t)
                    new == MapAt(ngramMaps', t)
                IN  /\ DOMAIN new = DOMAIN old
                                     \cup { k \in CandidateKeys(word) : Occ(word, t, k) > 0 }
                    /\ \A k \in DOMAIN new :
                          new[k] = At(old, k) + weight * Occ(word, t, k)

\* C1 as stated: each processed (word, weight) adds weight to exactly the
\* contiguous subsequences of the normalized word, each in the table of its
\* length, and changes no other entry.
C1_AsStated == [][AddsExactly(OccInNormalized)]_vars

\* C1 (amended): each processed (word, weight) adds weight, once for every n
\* in 1..m and every offset i in 0..m-n (m the raw word length), to the
\* normalized form of the raw substring word[i..i+n), in the table indexed by
\* the length of that normalized form, and changes no other entry.
C1_AddsNormalizedSubstrings == [][AddsExactly(OccOfNormalizedSubstrings)]_vars

\* A word with a merge has been counted after another word: its raw 'y' is an
\* entry of the length-1 table and its "oY" an entry of the length-2 table
C1_Witness ==
    /\ lastWord = <<"b","o","y">>
    /\ wordCount = 2
    /\ frequencies[lastWord] > 0
    /\ <<"y">> \in DOMAIN ngramMaps[1]
    /\ <<"o","Y">> \in DOMAIN ngramMaps[2]

\* Sum of the values of a map
RECURSIVE SumValues(_, _)
SumValues(map, keys) ==
    IF keys = {}
    THEN 0
    ELSE LET k == CHOOSE x \in keys : TRUE
         IN  map[k] + SumValues(map, keys \ {k})

\* C2: after any number of processed words, for every length n the values of
\* the length-n table sum to the total weight tracked for n.
C2_TableSumsEqualTotals ==
    /\ DOMAIN totalWeights = DOMAIN ngramMaps
    /\ \A n \in DOMAIN ngramMaps :
          SumValues(ngramMaps[n], DOMAIN ngramMaps[n]) = totalWeights[n]

\* Two words sharing n-grams have been counted with positive weights
C2_Witness ==
    /\ wordCount = 2
    /\ pending = {}
    /\ \A w \in DOMAIN frequencies : frequencies[w] > 0
    /\ \E k \in DOMAIN ngramMaps[1] : \A w \in DOMAIN frequencies : ngramMaps[1][k] > frequencies[w]

CatCan == (<<"c","a","t">> :> 10) @@ (<<"c","a","n">> :> 5)

\* The tables of C3, which the source {("cat", 10), ("can", 5)} yields
CatCanTables ==
    /\ DOMAIN ngramMaps = 0..3
    /\ ngramMaps[0] = EmptyMap
    /\ ngramMaps[1] = (<<"c">> :> 15) @@ (<<"a">> :> 15) @@ (<<"t">> :> 10) @@ (<<"n">> :> 5)
    /\ ngramMaps[2] = (<<"c","a">> :> 15) @@ (<<"a","t">> :> 10) @@ (<<"a","n">> :> 5)
    /\ ngramMaps[3] = (<<"c","a","t">> :> 10) @@ (<<"c","a","n">> :> 5)
    /\ vowelNgrams = (<<"a">> :> 15)
    /\ consonantNgrams = (<<"c">> :> 15) @@ (<<"t">> :> 10) @@ (<<"n">> :> 5)

\* C3 as stated: the source {("cat", 10), ("can", 5)} yields length-1 table
\* {c:15, a:15, t:10, n:5} with total 30, length-2 table {ca:15, at:10, an:5}
\* with total 30, length-3 table {cat:10, can:5} with total 15, vowel table
\* {a:15} and consonant table {c:15, t:10, n:5}.
C3_AsStated ==
    (frequencies = CatCan /\ Classified) =>
        /\ CatCanTables
        /\ totalWeights[1] = 30
        /\ totalWeights[2] = 30
        /\ totalWeights[3] = 15

\* C3 (amended): the source {("cat", 10), ("can", 5)} yields length-1 table
\* {c:15, a:15, t:10, n:5} with total 45, length-2 table {ca:15, at:10, an:5}
\* with total 30, length-3 table {cat:10, can:5} with total 15, vowel table
\* {a:15} and consonant table {c:15, t:10, n:5}.
C3_CatCan ==
    (frequencies = CatCan /\ Classified) =>
        /\ CatCanTables
        /\ totalWeights[1] = 45
        /\ totalWeights[2] = 30
        /\ totalWeights[3] = 15

C3_Witness == frequencies = CatCan /\ pc = "done"

Boy == (<<"b","o","y">> :> 1)

\* C4 as stated: the source {("boy", 1)} yields length-1 table {b:1, Y:1}
\* with total 2, length-2 table {bY:1} with total 1, no length-3 entries,
\* vowel table {Y:1} and consonant table {b:1}.
C4_AsStated ==
    (frequencies = Boy /\ Classified) =>
        /\ ngramMaps[1] = (<<"b">> :> 1) @@ (<<"Y">> :> 1)
        /\ totalWeights[1] = 2
        /\ ngramMaps[2] = (<<"b","Y">> :> 1)
        /\ totalWeights[2] = 1
        /\ MapAt(ngramMaps, 3) = EmptyMap
        /\ vowelNgrams = (<<"Y">> :> 1)
        /\ consonantNgrams = (<<"b">> :> 1)

\* C4 (amended): the source {("boy", 1)} yields length-1 table
\* {b:1, o:1, y:1} with total 3, length-2 table {bo:1, oY:1} with total 2,
\* length-3 table {boY:1} with total 1, vowel table {o:1, oY:1} and
\* consonant table {b:1, y:1}.
C4_Boy ==
    (frequencies = Boy /\ Classified) =>
        /\ DOMAIN ngramMaps = 0..3
        /\ ngramMaps[0] = EmptyMap
        /\ ngramMaps[1] = (<<"b">> :> 1) @@ (<<"o">> :> 1) @@ (<<"y">> :> 1)
        /\ totalWeights[1] = 3
        /\ ngramMaps[2] = (<<"b","o">> :> 1) @@ (<<"o","Y">> :> 1)
        /\ totalWeights[2] = 2
        /\ ngramMaps[3] = (<<"b","o","Y">> :> 1)
        /\ totalWeights[3] = 1
        /\ vowelNgrams = (<<"o">> :> 1) @@ (<<"o","Y">> :> 1)
        /\ consonantNgrams = (<<"b">> :> 1) @@ (<<"y">> :> 1)

C4_Witness == frequencies = Boy /\ pc = "done"

\* The scan as the claim words it: the rules tried in the order qu, y, w
RECURSIVE PriorityScan(_)
PriorityScan(w) ==
    IF Len(w) = 0 THEN <<>>
    ELSE IF Len(w) = 1 THEN w
    ELSE LET c0 == w[1]
             c1 == w[2]
             rest == SubSeq(w, 3, Len(w))
         IN  IF c0 = "q" /\ c1 = "u"
             THEN <<"Q">> \o PriorityScan(rest)
             ELSE IF c1 = "y" /\ (c0 \in {"a","e","o","u"} \/ c0 \in ConsonantAlphabet)
             THEN <<c0, "Y">> \o PriorityScan(rest)
             ELSE IF c1 = "w" /\ c0 \in {"a","e","o"}
             THEN <<c0, "W">> \o PriorityScan(rest)
             ELSE <<c0>> \o PriorityScan(Tail(w))

\* C5: for every non-empty lowercase word the normalizer returns the result
\* of one left-to-right scan with one-character lookahead that emits c0 and
\* then applies the first of: "qu" becomes Q; 'y' after a, e, o, u or a
\* consonant becomes Y after c0; 'w' after a, e, o becomes W after c0;
\* otherwise no merge.
C5_NormalizerIsPriorityScan == nDone => nResult = PriorityScan(nInput)

\* A word on which c0 is 'q' and the y rule, not the qu rule, fires
C5_Witness ==
    /\ nDone
    /\ nInput = <<"q","y","u">>
    /\ nResult = <<"q","Y","u">>

Cry == <<"c","r","y">>
Cow == <<"c","o","w">>

\* C6 as stated: normalize("cry") = ['c', Y], normalize("boy") = ['b', Y]
\* and normalize("cow") = ['c', W], each of two symbols.
C6_AsStated ==
    nDone => /\ (nInput = Cry => nResult = <<"c","Y">>)
             /\ (nInput = <<"b","o","y">> => nResult = <<"b","Y">>)
             /\ (nInput = Cow => nResult = <<"c","W">>)

\* C6 (amended): normalize("cry") = ['c','r',Y], normalize("boy") =
\* ['b','o',Y] and normalize("cow") = ['c','o',W], each of three symbols: the
\* character before the merged 'y' or 'w' is kept.
C6_Examples ==
    nDone => /\ (nInput = Cry => nResult = <<"c","r","Y">>)
             /\ (nInput = <<"b","o","y">> => nResult = <<"b","o","Y">>)
             /\ (nInput = Cow => nResult = <<"c","o","W">>)

C6_Witness == nDone /\ nInput = Cow /\ Len(nResult) = 3

\* All the keys of all the length tables
AllKeys == UNION { DOMAIN ngramMaps[t] : t \in DOMAIN ngramMaps }

Over(ngram, alphabet) == \A j \in 1..Len(ngram) : ngram[j] \in alphabet

\* C7: after classification the vowel table holds exactly the n-grams of the
\* length tables whose every symbol is in {a,e,o,i,u,Y,W}, the consonant
\* table exactly those whose every symbol is in the 22-symbol consonant
\* alphabet, each with the weight it has in its length table; an n-gram
\* mixing both alphabets is in neither.
C7_Classification ==
    Classified =>
        /\ DOMAIN vowelNgrams = { k \in AllKeys : Over(k, VowelAlphabet) }
        /\ DOMAIN consonantNgrams = { k \in AllKeys : Over(k, ConsonantAlphabet) }
        /\ \A t \in DOMAIN ngramMaps : \A k \in DOMAIN ngramMaps[t] :
              /\ k \in DOMAIN vowelNgrams => vowelNgrams[k] = ngramMaps[t][k]
              /\ k \in DOMAIN consonantNgrams => consonantNgrams[k] = ngramMaps[t][k]
              /\ (~Over(k, VowelAlphabet) /\ ~Over(k, ConsonantAlphabet)) =>
                    (k \notin DOMAIN vowelNgrams /\ k \notin DOMAIN consonantNgrams)

\* Classification has put a two-symbol vowel n-gram with a synthetic symbol
\* and the synthetic consonant in their tables and left a mixed n-gram out
C7_Witness ==
    /\ Classified
    /\ <<"o","Y">> \in DOMAIN vowelNgrams
    /\ <<"Q">> \in DOMAIN consonantNgrams
    /\ <<"b","o">> \in AllKeys

\* C8: the vowel table and the consonant table have no key in common.
C8_Disjoint == DOMAIN vowelNgrams \cap DOMAIN consonantNgrams = {}

C8_Witness ==
    /\ Classified
    /\ DOMAIN vowelNgrams # {}
    /\ DOMAIN consonantNgrams # {}

Min(a, b) == IF a < b THEN a ELSE b

\* C9: a printed section lists min(topK, number of distinct n-grams of its
\* length) entries, each an entry of that length's table and none twice.
C9_ListedCount ==
    sectionCount > 0 =>
        LET tbl == ngramMaps[section.n]
        IN  /\ Len(section.lines) = Min(top_k, Cardinality(DOMAIN tbl))
            /\ \A j \in 1..Len(section.lines) :
                  /\ section.lines[j][1] \in DOMAIN tbl
                  /\ \A m \in 1..Len(section.lines) :
                        section.lines[m][1] = section.lines[j][1] => m = j

\* A section of a table with fewer entries than topK
C9_Witness ==
    /\ sectionCount > 0
    /\ Cardinality(DOMAIN ngramMaps[section.n]) < top_k
    /\ Len(section.lines) = 1

\* C10: in a printed section the listed weights are non-increasing, and every
\* listed weight is at least the weight of every entry of that length that
\* is not listed.
C10_DescendingTop ==
    sectionCount > 0 =>
        LET tbl == ngramMaps[section.n]
            listed == { section.lines[j][1] : j \in 1..Len(section.lines) }
        IN  /\ \A j \in 1..Len(section.lines) :
                  section.lines[j][2] = tbl[section.lines[j][1]]
            /\ \A j \in 1..(Len(section.lines) - 1) :
                  section.lines[j][2] >= section.lines[j + 1][2]
            /\ \A j \in 1..Len(section.lines) : \A k \in DOMAIN tbl \ listed :
                  section.lines[j][2] >= tbl[k]

\* A section of two lines of different weights that leaves lighter entries out
C10_Witness ==
    /\ sectionCount > 0
    /\ Len(section.lines) = 2
    /\ section.lines[1][2] > section.lines[2][2]
    /\ \E k \in DOMAIN ngramMaps[section.n] : ngramMaps[section.n][k] < section.lines[2][2]

-----------------------------------------------------------------------------
(* Percentages of the report *)

\* The sum of two percentages; NaN and Inf absorb
AddPercent(a, b) ==
    IF a = NaN \/ b = NaN THEN NaN
    ELSE IF a = Inf \/ b = Inf THEN Inf
    ELSE IF a[2] = b[2] THEN <<a[1] + b[1], a[2]>>
    ELSE <<a[1] * b[2] + b[1] * a[2], a[2] * b[2]>>

\* The percentages of all the entries of a table, summed
RECURSIVE SumPercent(_, _)
SumPercent(entries, total) ==
    IF entries = {}
    THEN <<0, 1>>
    ELSE LET e == CHOOSE x \in entries : TRUE
         IN  AddPercent(Line(e, total)[3], SumPercent(entries \ {e}, total))

IsNumber(p) == p # NaN /\ p # Inf

Equals100(p) == IsNumber(p) /\ p[1] = 100 * p[2]

NonEmptyLengths == { n \in DOMAIN ngramMaps : DOMAIN ngramMaps[n] # {} }

\* C11 as stated: for every length n with a non-empty table the percentages
\* of all the entries of the table sum to 100.
C11_AsStated ==
    \A n \in NonEmptyLengths :
        Equals100(SumPercent(Entries(ngramMaps[n]), totalWeights[n]))

\* C11: for every length n with a non-empty table and a total weight other
\* than zero, the percentages (weight / total[n] x 100) of all the entries of
\* the table sum to 100.
C11_PercentagesSumTo100 ==
    \A n \in NonEmptyLengths :
        totalWeights[n] # 0 =>
            Equals100(SumPercent(Entries(ngramMaps[n]), totalWeights[n]))

C11_Witness ==
    /\ pc = "done"
    /\ \E n \in NonEmptyLengths :
          /\ totalWeights[n] # 0
          /\ Cardinality(DOMAIN ngramMaps[n]) >= 3
          /\ \E k \in DOMAIN ngramMaps[n] : ngramMaps[n][k] = 0

\* C12: a printed section of a length whose total weight is zero shows 0% on
\* each of its lines, never the result of a division by zero.
C12_ZeroTotalShowsZero ==
    (sectionCount > 0 /\ totalWeights[section.n] = 0) =>
        \A j \in 1..Len(section.lines) :
            /\ IsNumber(section.lines[j][3])
            /\ section.lines[j][3][1] = 0

\* C13: for an empty source the run ends with every table empty, no total
\* other than zero, and a report of zero words, no section and a total of
\* zero; before its end the run can always take a step.
C13_EmptySource ==
    (DOMAIN frequencies = {}) =>
        /\ pc # "done" => ENABLED Next
        /\ \A n \in DOMAIN ngramMaps : DOMAIN ngramMaps[n] = {}
        /\ \A n \in DOMAIN totalWeights : totalWeights[n] = 0
        /\ DOMAIN vowelNgrams = {} /\ DOMAIN consonantNgrams = {}
        /\ totalVowelNgrams = 0 /\ totalConsonantNgrams = 0
        /\ wordCount = 0
        /\ sectionCount = 0
        /\ (pc = "done" /\ ~output_json) =>
              printedWords = 0 /\ printedTotal = 0
        /\ (pc = "done" /\ output_json) =>
              /\ size(jsonOut.ngrams) = 0
              /\ DOMAIN jsonOut.vowels = {}
              /\ DOMAIN jsonOut.consonants = {}

C13_Witness ==
    /\ DOMAIN frequencies = {}
    /\ pc = "done"
    /\ ~output_json
    /\ printedTotal = 0

-----------------------------------------------------------------------------
(* Termination of the normalizer *)

\* C20: on every input word each iteration of the scan moves the index
\* forward by at least one position without passing the end and adds no more
\* characters than it consumes, so the scan ends; the call returns the one
\* output the scan determines, and that output is never longer than the input.
C20_TerminatesNoLonger ==
    /\ \A i \in 0..(Len(nInput) - 1) :
          LET st == ScanStep(nInput, i, <<>>)
          IN  /\ i < st[2]
              /\ st[2] <= Len(nInput)
              /\ Len(st[1]) <= st[2] - i
    /\ nDone => /\ nResult = replaceSpecialSequences(nInput)
                /\ Len(nResult) <= Len(nInput)

C20_Witness ==
    /\ nDone
    /\ Len(nInput) = MaxWordLen
    /\ Len(nResult) < Len(nInput)

-----------------------------------------------------------------------------
(* Properties of SubtlexImporter *)

\* The fields of a line of comma-separated values: one more than it has
\* commas, the last one included when it is empty
RECURSIVE Fields(_, _)
Fields(line, pos) ==
    With(NextComma(line, pos),
         LAMBDA j : IF j > Len(line)
                    THEN << SubSeq(line, pos, Len(line)) >>
                    ELSE << SubSeq(line, pos, j - 1) >> \o Fields(line, j + 1))

FieldCount(line) == Len(Fields(line, 1))

RequiredNames == { Name(key) : key \in DOMAIN columnTypes }

\* The header line has been accepted
HeaderAccepted == ipc \in {"rows", "ready"} \/ (ipc = "failed" /\ Len(fileLines) >= 2)

\* The data lines read so far, as indices of fileLines: the lines that the
\* construction reached, none of which but the last made it fail
DataLines == 2..Len(fileLines)

\* The position of the Word column in the accepted header
WordColumn == CHOOSE i \in DOMAIN columnNames : columnNames[i] = Name("Word")

\* The data line k, not blank, has a field in the Word column, and that field
HasWord(k) == fileLines[k] # <<>> /\ WordColumn <= FieldCount(fileLines[k])
WordOf(k) == Fields(fileLines[k], 1)[WordColumn]

\* The lowercase form of a word, and words that are equal ignoring case
Lower(word) == [i \in DOMAIN word |->
                  IF word[i] \in Range(uppercase)
                  THEN lowercase[IndexOf(word[i], uppercase)]
                  ELSE word[i]]

\* A non-empty word of letters only
Alphabetic(word) ==
    word # <<>> /\ \A i \in DOMAIN word : word[i] \in Range(lowercase) \cup Range(uppercase)

\* The text is a decimal integer: an optional sign and one digit or more
IsInteger(text) ==
    LET body == IF text # <<>> /\ text[1] \in {"+", "-"} THEN Tail(text) ELSE text
    IN  body # <<>> /\ \A i \in DOMAIN body : body[i] \in Range(digits)

\* The text is a decimal number: an optional sign, digits and at most one point
IsDecimal(text) ==
    LET body == IF text # <<>> /\ text[1] \in {"+", "-"} THEN Tail(text) ELSE text
    IN  /\ \E i \in DOMAIN body : body[i] \in Range(digits)
        /\ \A i \in DOMAIN body : body[i] \in Range(digits) \cup {"."}
        /\ Cardinality({ i \in DOMAIN body : body[i] = "." }) <= 1

\* The value a field text denotes in a column of the given type holds in v
Denotes(text, type, v) ==
    IF type = "Int"
    THEN IsInteger(text) /\ stoi(text).ok /\ v = [type |-> "int", v |-> stoi(text).v]
    ELSE IF type = "Double"
    THEN IsDecimal(text) /\ v = [type |-> "double", v |-> stod(text).v]
    ELSE v = [type |-> "string", v |-> text]

\* C14: whenever the header line is accepted its column names are exactly
\* the 15 required names, each once, in some order; so a header with a
\* missing, an unexpected or a duplicated column is never accepted.
C14_AsStated ==
    HeaderAccepted =>
        LET names == Fields(fileLines[1], 1)
        IN  /\ Len(names) = Cardinality(RequiredNames)
            /\ Range(names) = RequiredNames

\* C15 as stated: two data rows with the same word ignoring case make the
\* construction fail with the 'Duplicate word' error naming the lowercase
\* word, and the keys of a map returned by get are lowercase words.
C15_AsStated ==
    /\ HeaderAccepted =>
          \A j, k \in DataLines :
              (j < k /\ HasWord(j) /\ HasWord(k) /\ Lower(WordOf(j)) = Lower(WordOf(k))) =>
                  /\ ipc = "failed"
                  /\ error = Throw("Duplicate word in data", Lower(WordOf(k)))
    /\ (ipc = "ready" /\ gotColumn \in RequiredNames) =>
          \A key \in DOMAIN gotMap : key = Lower(key)

\* C15: two data rows with the same word ignoring case make the construction
\* fail; the error is 'Duplicate word', naming the lowercase word, when the
\* construction reaches the later of the two rows (no row before it makes
\* the construction fail), that row is split into as many fields as the
\* header has columns and its word is alphabetic.  After a successful construction the
\* keys of a map returned by get for a valid column are the lowercase forms
\* of the words of the rows, and none of them has an uppercase letter.
C15_DuplicateWord ==
    /\ HeaderAccepted =>
          \A j, k \in DataLines :
              (j < k /\ HasWord(j) /\ HasWord(k) /\ Lower(WordOf(j)) = Lower(WordOf(k))) =>
                  /\ ipc = "failed"
                  /\ ( /\ Len(splitCSVLine(fileLines[k])) = Len(columnNames)
                       /\ Alphabetic(WordOf(k)) ) =>
                          error = Throw("Duplicate word in data", Lower(WordOf(k)))
    /\ (ipc = "ready" /\ gotColumn \in RequiredNames) =>
          /\ DOMAIN gotMap = { Lower(WordOf(k)) : k \in DataLines }
          /\ \A key \in DOMAIN gotMap : key = Lower(key)

C15_Witness ==
    /\ ipc = "failed"
    /\ Len(fileLines) = 3
    /\ error = Throw("Duplicate word in data", <<"c", "a", "t">>)
    /\ HasWord(2) /\ WordOf(2) = <<"c", "a", "t">>
    /\ HasWord(3) /\ WordOf(3) = <<"C", "a", "t">>

\* C16 as stated: a data row whose word is empty or has a character that is
\* no letter makes the construction fail with the 'Invalid word' error, and
\* every imported word is a non-empty string of lowercase letters.
C16_AsStated ==
    /\ HeaderAccepted =>
          \A k \in DataLines :
              (HasWord(k) /\ ~Alphabetic(WordOf(k))) =>
                  /\ ipc = "failed"
                  /\ error.kind = "Invalid word in data"
    /\ \A r \in DOMAIN table :
          LET word == table[r][WordColumn].v
          IN  word # <<>> /\ \A i \in DOMAIN word : word[i] \in Range(lowercase)

\* C16: a data row whose word is empty or has a character that is no letter
\* makes the construction fail; the error is 'Invalid word' when the
\* construction reaches the row (no row before it makes the construction
\* fail) and the row is split into as many fields as the header has
\* columns.  So every imported
\* word is a non-empty string of lowercase letters.
C16_InvalidWord ==
    /\ HeaderAccepted =>
          \A k \in DataLines :
              (HasWord(k) /\ ~Alphabetic(WordOf(k))) =>
                  /\ ipc = "failed"
                  /\ Len(splitCSVLine(fileLines[k])) = Len(columnNames) =>
                        error = Throw("Invalid word in data", Lower(WordOf(k)))
    /\ \A r \in DOMAIN table :
          LET word == table[r][WordColumn].v
          IN  word # <<>> /\ \A i \in DOMAIN word : word[i] \in Range(lowercase)
    /\ \A word \in seenWords :
          word # <<>> /\ \A i \in DOMAIN word : word[i] \in Range(lowercase)

C16_Witness ==
    /\ ipc = "failed"
    /\ Len(fileLines) = 3
    /\ Len(table) = 1
    /\ error = Throw("Invalid word in data", <<"c", "4", "t">>)

\* C17: after a successful construction get of a valid column returns one
\* entry per data row, under the lowercase word of the row, holding the value
\* the row's field denotes in the type of the column; get of any other
\* column name returns the empty map.
C17_AsStated ==
    (ipc = "ready" /\ gotColumn # <<>>) =>
        IF gotColumn \in RequiredNames
        THEN LET col == CHOOSE i \in DOMAIN columnNames : columnNames[i] = gotColumn
                 type == columnTypes[gotColumn[1]]
             IN  /\ Cardinality(DOMAIN gotMap) = Cardinality(DataLines)
                 /\ \A k \in DataLines :
                       /\ Lower(WordOf(k)) \in DOMAIN gotMap
                       /\ Denotes(IF col = WordColumn
                                  THEN Lower(WordOf(k))
                                  ELSE Fields(fileLines[k], 1)[col],
                                  type, gotMap[Lower(WordOf(k))])
        ELSE gotMap = EmptyMap

\* C18: a data row with a field of an Int column that is no integer, or a
\* field of a Double column that is no number, makes the construction fail;
\* a row that has the header's number of fields, a fresh alphabetic word and
\* only integers and numbers in the Int and Double columns is stored with the
\* values its fields denote, whatever its String fields are.
C18_AsStated ==
    HeaderAccepted =>
        \A k \in DataLines :
            LET fields == Fields(fileLines[k], 1)
                type(c) == columnTypes[columnNames[c][1]]
                bad == { c \in DOMAIN fields \cap DOMAIN columnNames :
                           \/ type(c) = "Int" /\ ~IsInteger(fields[c])
                           \/ type(c) = "Double" /\ ~IsDecimal(fields[c]) }
            IN  /\ bad # {} => ipc = "failed"
                /\ ( /\ bad = {}
                     /\ Len(fields) = Len(columnNames)
                     /\ Alphabetic(WordOf(k))
                     /\ \A c \in DOMAIN fields :
                           type(c) = "Int" => stoi(fields[c]).ok
                     /\ \A j \in DataLines :
                           j < k => Lower(WordOf(j)) # Lower(WordOf(k)) ) =>
                        /\ k - 1 \in DOMAIN table
                        /\ \A c \in DOMAIN fields :
                              Denotes(IF c = WordColumn THEN Lower(fields[c])
                                      ELSE fields[c], type(c), table[k - 1][c])

\* C19: a data row whose number of fields is not the number of the header's
\* columns makes the construction fail.
C19_AsStated ==
    HeaderAccepted =>
        \A k \in DataLines :
            FieldCount(fileLines[k]) # Len(columnNames) => ipc = "failed"

-----------------------------------------------------------------------------
(* The two versions of the normalizer *)

\* The number of merge rules whose conditions hold on the pair c0, c1
RulesFiring(c0, c1) ==
    LET yw == YWBranch(c0, c1, <<c0>>, 1)
    IN  Cardinality({ r \in {"y", "w", "qu"} :
                        \/ r = "y" /\ yw = <<<<c0, "Y">>, 2>>
                        \/ r = "w" /\ yw = <<<<c0, "W">>, 2>>
                        \/ r = "qu" /\ QUCheck(c0, c1, <<c0>>, 1)[2] = 2 })

\* C21: at every position of the input that has a next character at most one
\* of the merge rules fires and the iteration advances the index by at most
\* two, and the version of the normalizer with the independent qu check
\* returns what the version with the single if/else-if chain returns.
C21_SameAsChain ==
    nDone =>
        /\ \A i \in 0..(Len(nInput) - 2) :
              LET step == ScanStep(nInput, i, <<>>)
              IN  /\ RulesFiring(nInput[i + 1], nInput[i + 2]) <= 1
                  /\ step[2] - i <= 2
                  /\ step = utilScanStep(nInput, i, <<>>)
        /\ nResult = utilReplaceSpecialSequences(nInput)

C21_Witness ==
    /\ nDone
    /\ Len(nInput) = 3
    /\ nInput[1] = "q" /\ nInput[2] = "y" /\ nInput[3] = "w"
    /\ nResult = <<"q", "Y", "w">>
    /\ nResult = utilReplaceSpecialSequences(nInput)

-----------------------------------------------------------------------------
(* Totals of the vowel and consonant tables *)

\* C22: after classification the total vowel weight is the sum of the values
\* of the vowel table and the total consonant weight is the sum of the values
\* of the consonant table.
C22_ClassTotals ==
    Classified =>
        /\ totalVowelNgrams = SumValues(vowelNgrams, DOMAIN vowelNgrams)
        /\ totalConsonantNgrams = SumValues(consonantNgrams, DOMAIN consonantNgrams)

C22_Witness ==
    /\ Classified
    /\ Cardinality(DOMAIN vowelNgrams) >= 2
    /\ Cardinality(DOMAIN consonantNgrams) >= 2
    /\ totalVowelNgrams > 0
    /\ totalConsonantNgrams > totalVowelNgrams

-----------------------------------------------------------------------------
(* The number of a section of the report *)

\* The report loop is at an empty map
AtEmptyMap ==
    pc = "report" /\ mapIdx < size(ngramMaps) /\ DOMAIN ngramMaps[mapIdx] = {}

\* C23: in the report an iteration on an empty length table prints no
\* section and advances the length counter by one; the number n printed in
\* a section is the number of symbols of every n-gram listed in the section,
\* every listed n-gram is a key of the length-n table, and its percentage is
\* its weight divided by the total of length n, times 100.
C23_SectionNumber ==
    [][ /\ AtEmptyMap =>
              /\ section' = section
              /\ sectionCount' = sectionCount
              /\ ngramSize' = ngramSize + 1
        /\ sectionCount' > sectionCount =>
              /\ section'.n = mapIdx
              /\ \A j \in DOMAIN section'.lines :
                    LET line == section'.lines[j]
                    IN  /\ Len(line[1]) = section'.n
                        /\ line[1] \in DOMAIN ngramMaps[section'.n]
                        /\ line[2] = ngramMaps[section'.n][line[1]]
                        /\ line[3] = Times100(Divide(line[2],
                                                     totalWeights[Len(line[1])])) ]_vars

\* The source is the word qu alone: the tables of length 0 and 2 are empty,
\* and the one section printed is the section of the 1-grams
C23_Witness ==
    /\ pc = "done"
    /\ size(ngramMaps) = 3
    /\ sectionCount = 1
    /\ DOMAIN ngramMaps[2] = {}
    /\ section.n = 1
    /\ Len(section.lines) >= 1
    /\ \A j \in DOMAIN section.lines : Len(section.lines[j][1]) = 1

-----------------------------------------------------------------------------
(* The length of the normalizer's output *)

\* Number of occurrences of the symbol c in s
Count(s, c) == Cardinality({ i \in DOMAIN s : s[i] = c })

\* C24: the length of the normalizer's output is the length of its input
\* minus the number of Q symbols of the output.  An iteration of the scan
\* that emits Y or W consumes two characters and emits two symbols, the
\* first of them the character c0; an iteration that emits Q consumes two
\* characters and emits that one symbol; any other iteration consumes one
\* character and emits it.
C24_LengthMinusQ ==
    nDone =>
        /\ \A i \in 0..(Len(nInput) - 1) :
              LET st == ScanStep(nInput, i, <<>>)
                  consumed == st[2] - i
                  emitted == st[1]
              IN  IF emitted[Len(emitted)] \in {"Y", "W"}
                  THEN /\ consumed = 2
                       /\ Len(emitted) = 2
                       /\ emitted[1] = nInput[i + 1]
                       /\ nInput[i + 2] = (IF emitted[2] = "Y" THEN "y" ELSE "w")
                  ELSE IF emitted[Len(emitted)] = "Q"
                  THEN consumed = 2 /\ emitted = <<"Q">>
                  ELSE consumed = 1 /\ emitted = <<nInput[i + 1]>>
        /\ Len(nResult) = Len(nInput) - Count(nResult, "Q")

\* A word of three characters with one qu-merge: two symbols
C24_Witness ==
    /\ nDone
    /\ Len(nInput) = 3
    /\ Count(nResult, "Q") = 1
    /\ Len(nResult) = 2

-----------------------------------------------------------------------------
(* The keys of the length tables *)

\* The words processed so far, and the length of the longest of them
Processed == DOMAIN frequencies \ pending
Longest(words) ==
    IF words = {} THEN 0
    ELSE CHOOSE m \in { Len(w) : w \in words } : \A w \in words : Len(w) <= m

\* The entries of all the length tables, as <<index, key>> pairs
TableEntries ==
    UNION { { <<n, key>> : key \in DOMAIN ngramMaps[n] } : n \in DOMAIN ngramMaps }

\* C25: after any number of processed words every key of the length-n table
\* has n symbols, table 0 is empty, and the tables allocated are those of
\* the indices up to the length of the longest word processed, so no index
\* used is beyond them; no key is in two length tables, and the classifier
\* stores one entry, with the weight of the table, for every entry it
\* classifies: no assignment overwrites an entry.
C25_KeysByLength ==
    pc \in {"count", "output", "report", "done"} =>
        /\ \A n \in DOMAIN ngramMaps : \A key \in DOMAIN ngramMaps[n] : Len(key) = n
        /\ size(ngramMaps) > 0 => DOMAIN ngramMaps[0] = {}
        /\ size(ngramMaps) = size(totalWeights)
        /\ size(ngramMaps) = (IF Processed = {} THEN 0 ELSE Longest(Processed) + 1)
        /\ \A key \in AllKeys : Len(key) <= Longest(Processed)
        /\ \A n, m \in DOMAIN ngramMaps :
              n # m => DOMAIN ngramMaps[n] \cap DOMAIN ngramMaps[m] = {}
        /\ Classified =>
              /\ Cardinality(DOMAIN vowelNgrams) =
                    Cardinality({ e \in TableEntries : AllVowels(e[2]) })
              /\ Cardinality(DOMAIN consonantNgrams) =
                    Cardinality({ e \in TableEntries :
                                    ~AllVowels(e[2]) /\ AllConsonants(e[2]) })
              /\ \A key \in DOMAIN vowelNgrams :
                    vowelNgrams[key] = ngramMaps[Len(key)][key]
              /\ \A key \in DOMAIN consonantNgrams :
                    consonantNgrams[key] = ngramMaps[Len(key)][key]

\* The words boy and qu are processed and classified: qu is the key Q of the
\* table of length 1, oy the vowel key oY of the table of length 2
C25_Witness ==
    /\ Classified
    /\ Cardinality(Processed) = 2
    /\ size(ngramMaps) = 4
    /\ <<"Q">> \in DOMAIN ngramMaps[1]
    /\ <<"o", "Y">> \in DOMAIN ngramMaps[2]
    /\ <<"b", "o", "Y">> \in DOMAIN ngramMaps[3]
    /\ <<"o", "Y">> \in DOMAIN vowelNgrams
    /\ <<"Q">> \in DOMAIN consonantNgrams

-----------------------------------------------------------------------------
(* The grand total *)

\* Number of substrings of a word: m (m + 1) / 2 for the length m
Substrings(word) == (Len(word) * (Len(word) + 1)) \div 2

\* The sum over the words of weight * m (m + 1) / 2
RECURSIVE WeightedSubstrings(_)
WeightedSubstrings(words) ==
    IF words = {} THEN 0
    ELSE LET word == CHOOSE w \in words : TRUE
         IN  frequencies[word] * Substrings(word) + WeightedSubstrings(words \ {word})

\* C26: processing a word of length m and weight w adds w * m (m + 1) / 2 to
\* the sum of the per-length totals and one to the word count; the word
\* count printed is the number of pairs of the source, and the grand total
\* printed is the sum over the words of w * m (m + 1) / 2.
C26_GrandTotal ==
    [][ /\ (pc = "count" /\ pending' # pending) =>
              /\ accumulate(totalWeights', 0) =
                    accumulate(totalWeights, 0)
                        + frequencies[lastWord'] * Substrings(lastWord')
              /\ wordCount' = wordCount + 1
        /\ (pc' \in {"count", "output"}) =>
              accumulate(totalWeights', 0) = WeightedSubstrings(Processed')
        /\ (pc' = "report" /\ pc = "output") =>
              printedWords' = Cardinality(DOMAIN frequencies)
        /\ (pc' = "done" /\ pc = "report") =>
              printedTotal' = WeightedSubstrings(DOMAIN frequencies) ]_vars

\* The report of the source cat: 5, qu: 10, whose grand total is 5 * 6 + 10 * 3
C26_Witness ==
    /\ pc = "done"
    /\ ~output_json
    /\ DOMAIN frequencies = { <<"c", "a", "t">>, <<"q", "u">> }
    /\ frequencies[<<"c", "a", "t">>] = 5
    /\ frequencies[<<"q", "u">>] = 10
    /\ printedWords = 2
    /\ printedTotal = 60

-----------------------------------------------------------------------------
(* The order of the words *)

\* The word that the reference order processes first
FirstOf(words) == CHOOSE w \in words : TRUE

\* The tables and totals after the words are processed in the reference
\* order, from the tables and totals st
RECURSIVE CountAll(_, _)
CountAll(words, st) ==
    IF words = {} THEN st
    ELSE LET word == FirstOf(words)
         IN  CountAll(words \ {word}, CountWord(st[1], st[2], word, frequencies[word]))

\* C27: with exact weights the per-length tables and totals after a set of
\* words is processed are those of the reference order, in whatever order
\* the words were processed; so are the vowel table, the consonant table
\* and their totals once the classification is done.  The output that
\* follows changes none of them.
C27_OrderIndependent ==
    pc \in {"count", "output"} =>
        With(CountAll(Processed, <<EmptyVector, EmptyVector>>),
             LAMBDA st :
               /\ ngramMaps = st[1]
               /\ totalWeights = st[2]
               /\ pc = "output" =>
                     <<vowelNgrams, consonantNgrams, totalVowelNgrams,
                       totalConsonantNgrams>>
                         = ClassifyMaps(<<EmptyMap, EmptyMap, 0, 0>>, st[1], 0))

\* Two words of different lengths with different weights, processed in the
\* order that is not the reference order, and classified
C27_Witness ==
    /\ pc = "output"
    /\ DOMAIN frequencies = { <<"c", "a", "t">>, <<"q", "u">> }
    /\ frequencies[<<"c", "a", "t">>] = 5
    /\ frequencies[<<"q", "u">>] = 10
    /\ lastWord = FirstOf(DOMAIN frequencies)

-----------------------------------------------------------------------------
(* The first symbol of a key *)

\* C28: no key of a length table begins with Y or W, so the table of
\* length 1 holds neither; a 'y' or 'w' of a processed word is a key of the
\* table of length 1, with the weight of the word for each of its
\* occurrences in the word, and the classification puts that key in the
\* consonant table and not in the vowel table.
C28_NoLeadingYW ==
    /\ \A n \in DOMAIN ngramMaps : \A key \in DOMAIN ngramMaps[n] :
          key[1] \notin {"Y", "W"}
    /\ \A key \in DOMAIN vowelNgrams \cup DOMAIN consonantNgrams :
          key[1] \notin {"Y", "W"}
    /\ (pc \in {"count", "output"} /\ lastWord # <<>>) =>
          /\ <<"Y">> \notin DOMAIN ngramMaps[1]
          /\ <<"W">> \notin DOMAIN ngramMaps[1]
          /\ \A i \in DOMAIN lastWord :
                lastWord[i] \in {"y", "w"} =>
                    /\ <<lastWord[i]>> \in DOMAIN ngramMaps[1]
                    /\ ngramMaps[1][<<lastWord[i]>>] =
                          frequencies[lastWord] * Count(lastWord, lastWord[i])
                    /\ pc = "output" =>
                          /\ <<lastWord[i]>> \in DOMAIN consonantNgrams
                          /\ <<lastWord[i]>> \notin DOMAIN vowelNgrams

\* The word owy: its 'w' is merged into oW and its 'y' into wY, and both
\* are keys of the table of length 1 and of the consonant table
C28_Witness ==
    /\ pc = "output"
    /\ lastWord = <<"o", "w", "y">>
    /\ <<"o", "W">> \in DOMAIN vowelNgrams
    /\ <<"w", "Y">> \in DOMAIN ngramMaps[2]
    /\ <<"w">> \in DOMAIN consonantNgrams
    /\ <<"y">> \in DOMAIN consonantNgrams

-----------------------------------------------------------------------------
(* The order of the checks of the import *)

\* The step reads a data line
ReadsRow == ipc = "rows" /\ fileLines' # fileLines

\* The outcome of the checks of a data line, taken in the order field
\* count, invalid word, duplicate word, values: the error of the first
\* check that fails, NoError if none does.  earlier holds the lines read
\* before, all of them accepted.
FirstFailure(line, earlier) ==
    With(splitCSVLine(line), LAMBDA raw :
        IF Len(raw) # Len(columnNames)
        THEN Throw("Row has incorrect number of columns.", <<>>)
        ELSE LET word == Lower(raw[WordColumn])
                 low == [raw EXCEPT ![WordColumn] = word]
                 bad == { c \in DOMAIN low :
                            IsError(parseValue(low[c], columnNames[c])) }
             IN  IF ~Alphabetic(word)
                 THEN Throw("Invalid word in data", word)
                 ELSE IF \E j \in 2..Len(earlier) : Lower(WordOf(j)) = word
                 THEN Throw("Duplicate word in data", word)
                 ELSE IF bad # {}
                 THEN LET c == CHOOSE b \in bad : \A d \in bad : b <= d
                      IN  parseValue(low[c], columnNames[c])
                 ELSE NoError)

\* C29: the data lines are checked one by one in the order of the file; the
\* construction fails at the first line with a failing check, with the
\* error of the first check of that line that fails in the order field
\* count, invalid word, duplicate word, values, and stores no row of it;
\* after the failure no line is read.  A line that passes every check adds
\* one row to the table.
C29_FailFastOrdered ==
    [][ /\ ipc # "failed"
        /\ ReadsRow =>
              /\ Len(fileLines') = Len(fileLines) + 1
              /\ SubSeq(fileLines', 1, Len(fileLines)) = fileLines
              /\ Len(table) = Len(fileLines) - 1
              /\ With(FirstFailure(fileLines'[Len(fileLines')], fileLines),
                       LAMBDA failure :
                         IF failure = NoError
                         THEN /\ ipc' = "rows"
                              /\ error' = NoError
                              /\ Len(table') = Len(table) + 1
                              /\ SubSeq(table', 1, Len(table)) = table
                         ELSE /\ ipc' = "failed"
                              /\ error' = failure
                              /\ table' = table) ]_vars

\* The second data line has the word of the first one and a text that is no
\* number in its Int columns: the error is the one of the duplicate word
C29_Witness ==
    /\ ipc = "failed"
    /\ Len(fileLines) = 3
    /\ Len(columnNames) = Cardinality(RequiredNames)
    /\ fileLines[2] = Join(RowFields(columnNames, <<"c", "a", "t">>, DefaultInt,
                                      DefaultDouble, DefaultString))
    /\ fileLines[3] = Join(RowFields(columnNames, <<"c", "a", "t">>,
                                      <<"a", "b", "c">>, DefaultDouble, DefaultString))
    /\ error = Throw("Duplicate word in data", <<"c", "a", "t">>)

=============================================================================
